---- MODULE Spec2Model ----
(***************************************************************************)
(* Model of the ChronDB Rust binding (bindings/rust/src/lib.rs): the       *)
(* process-wide worker registry, ChronDB::open, the FFI worker thread      *)
(* (init_worker, run_worker_loop, close), the operation methods and        *)
(* Drop for SharedWorker.                                                  *)
(*                                                                         *)
(* Caller threads and worker threads interleave at the points where the    *)
(* code synchronises: the registry mutex, the channels, thread spawn/join, *)
(* and entry to / return from a native call.                               *)
(***************************************************************************)
EXTENDS Naturals, Integers, Sequences, FiniteSets, TLC

\* ---------------------------------------------------------------- bounds
NumCallers == 2
MaxWorkers == 3
MaxOps == 2
MaxCloses == 2
MaxIsolates == 2
MaxSessions == 3

Callers == 1..NumCallers
Workers == 1..MaxWorkers
None == 0

\* Path-pair strings a caller may pass to open.  "rel" and "abs" are two
\* spellings of the same storage location; "abs" is its canonical form.
PathStrs == {"rel", "abs"}
Canon(p) == "abs"

OpKinds == {"Put", "Get", "Delete", "ListByPrefix", "ListByTable", "History", "Query"}
CmdKinds == OpKinds \cup {"LastError"}
PtrRets == {"str", "null"}
DeleteRets == {"0", "1", "other"}
\* A Rust string argument either has no interior NUL byte or has one.
Strs == {"ok", "nul"}
\* branch: Option<&str>
Branches == {"none", "ok", "nul"}
\* A native string return: null, valid JSON text, or text that is not JSON.
StrRets == {"null", "json", "badjson"}
\* chrondb_last_error returns null or the engine's diagnostic text.
ErrRets == {"null", "engine text"}

VARIABLES
    fsExists,    \* the storage directories exist on disk
    libState,    \* LIBRARY / SETUP_RESULT once-cells: "uninit", "ok", "failed"
    registry,    \* WORKER_REGISTRY: key -> worker (Weak) or None
    pc,          \* caller thread position
    cpath,       \* open(): data_path/index_path arguments
    ckey,        \* open(): key
    cw,          \* worker being created by open() / dropped by drop()
    shared,      \* ChronDB.shared (worker of the handle the caller owns)
    nops,        \* number of commands the caller has sent
    replyChan,   \* reply_rx of the command the caller waits on
    lastReply,   \* value returned by the caller's last operation
    opKind,      \* method of the caller's last operation: "op" (put .. query) or "last_error"
    openErr,     \* error returned by the caller's last open, or "none"
    lock,        \* thread that holds the WORKER_REGISTRY mutex, or None
    wpc,         \* worker thread position
    wpath,       \* data_path_str/index_path_str moved into the worker
    wkey,        \* SharedWorker.data_path/index_path
    strong,      \* Arc<SharedWorker> strong count
    queue,       \* command channel (tx -> rx)
    cur,         \* command being dispatched
    initMsg,     \* init_tx -> init_rx
    whandle,     \* FfiWorkerState.handle
    isolate,     \* native side: the worker's isolate is "none", "live" or "torn"
    wthread,     \* FfiWorkerState.thread is non-null
    arrived,     \* history: ids of commands in channel arrival order
    processed,   \* history: ids of commands in dispatch order
    seenAtStart, \* history: workers with a live returned handle when open began
    dropDone,    \* history: SharedWorker::drop has returned
    sharedDrop,  \* history: a handle other than the last one was dropped
    sState,      \* one worker thread in isolation: "none" or "live" (FfiWorkerState exists)
    sHandle,     \* its FfiWorkerState.handle
    sThread,     \* its FfiWorkerState.thread is non-null
    sIsolates,   \* native side: number of isolates created and not torn down
    sIn,         \* arguments and native return values of its last call
    sOut,        \* result, native calls and string pointers of its last call
    sCloses,     \* number of times close() ran on the FfiWorkerState
    sCloseLog,   \* native calls made by close() on the FfiWorkerState
    envLibDir,   \* CHRONDB_LIB_DIR is set
    envDirHasLib,\* <CHRONDB_LIB_DIR>/<lib name> exists
    homeHasLib,  \* ~/.chrondb/lib/<lib name> exists
    skipSetup,   \* the environment asks to skip auto-provisioning
    tempDir,     \* ~/.chrondb/lib/.tmp-extract-runtime exists
    setupResult, \* SETUP_RESULT: "uninit", "running", or the cached Result
    library,     \* LIBRARY: "uninit", "running", or the cached Result
    tpc,         \* position of a thread inside get_library()
    tret,        \* value get_library() returned to the thread
    existChecks, \* history: number of runs of library_exists()
    downloads,   \* history: number of runs of download_library()
    loads,       \* history: number of runs of ChronDBLib::load()
    lastDownload,\* history: what the run of download_library() did
    firstAttempt,\* history: artifact present when the first provisioning attempt finished
    disk,        \* engine: the documents stored under the path pair, by id
    diskHeld,    \* engine: a native session holds the storage open
    stHandles,   \* ChronDB handles on the path pair (strong count of its worker)
    stPc,        \* the caller: "idle", or "drop_join" inside SharedWorker::drop
    stWorker,    \* the path pair's worker thread: "none", "recv", "close", "ended"
    stHandle,    \* FfiWorkerState.handle of that worker
    stSessions,  \* history: number of workers created for the path pair
    stRes,       \* history: the last call of the caller and its Result
    stPrev,      \* history: the call before it
    stModel      \* history: per id, the document last put and the session of the put

vars == <<lock, fsExists, libState, registry, pc, cpath, ckey, cw, shared, nops,
          replyChan, lastReply, openErr, wpc, wpath, wkey, strong, queue, cur,
          initMsg, whandle, isolate, wthread, arrived, processed, seenAtStart, dropDone, sharedDrop,
          sState, sHandle, sThread, sIsolates, sIn, sOut, sCloses, sCloseLog, opKind,
          envLibDir, envDirHasLib, homeHasLib, skipSetup, tempDir, setupResult, library,
          tpc, tret, existChecks, downloads, loads, lastDownload, firstAttempt,
          disk, diskHeld, stHandles, stPc, stWorker, stHandle, stSessions, stRes, stPrev, stModel>>

callerVars == <<pc, cpath, ckey, cw, shared, nops, replyChan, lastReply, openErr, seenAtStart>>
workerVars == <<wpc, wpath, wkey, queue, cur, initMsg, whandle, isolate, wthread, processed,
               sharedDrop>>

sessVars == <<sState, sHandle, sThread, sIsolates, sIn, sOut, sCloses, sCloseLog>>
brokerVars == <<lock, fsExists, libState, registry, pc, cpath, ckey, cw, shared, nops,
                replyChan, lastReply, openErr, wpc, wpath, wkey, strong, queue, cur,
                initMsg, whandle, isolate, wthread, arrived, processed, seenAtStart,
                dropDone, sharedDrop, opKind>>

setupVars == <<envLibDir, envDirHasLib, homeHasLib, skipSetup, tempDir, setupResult, library,
               tpc, tret, existChecks, downloads, loads, lastDownload, firstAttempt>>
storeVars == <<disk, diskHeld, stHandles, stPc, stWorker, stHandle, stSessions, stRes, stPrev,
               stModel>>
nonBrokerVars == <<sessVars, setupVars, storeVars>>
nonSessVars == <<brokerVars, setupVars, storeVars>>
nonSetupVars == <<brokerVars, sessVars, storeVars>>
nonStoreVars == <<brokerVars, sessVars, setupVars>>

NoCmd == [kind |-> "none", caller |-> 0, n |-> 0]
ShutdownCmd == [kind |-> "Shutdown", caller |-> 0, n |-> 0]
NoReply == [caller |-> 0, n |-> 0, res |-> "none"]
NoIn == [kind |-> "none", a |-> "ok", b |-> "ok", branch |-> "none", ret |-> "null",
         err |-> "null", lib |-> "ok", create |-> 0, handle |-> -1]
\* Outcome of a call: its Result, the native functions it called in order,
\* the non-null string pointers the native side returned to it, and the
\* pointers it passed to chrondb_free_string in order.
Outcome(res, calls, alloc, freed) ==
    [res |-> res, calls |-> calls, alloc |-> alloc, freed |-> freed]
Res(tag, text) == [tag |-> tag, text |-> text]
NoOut == Outcome(Res("none", ""), <<>>, {}, <<>>)

\* ---------------------------------------------------------------- helpers

\* std::fs::canonicalize(p).unwrap_or_else(|_| PathBuf::from(p)):
\* canonicalize fails for a path that does not exist.
Key(p, exists) == IF exists THEN Canon(p) ELSE p

Upgrade_NoCheck(w) == TRUE
\* Weak::upgrade succeeds only while the strong count is non-zero.
Upgrade(w) == strong[w] > 0

LastRef_Always(cnt) == TRUE
\* Arc::drop runs the destructor only when it releases the last strong ref.
LastRef(cnt) == cnt = 1

NextCmd_Lifo(q) == q[Len(q)]
\* rx.recv(): the channel is FIFO.
NextCmd(q) == Head(q)
Dequeue_Keep(q) == q
Dequeue(q) == Tail(q)

JoinReady_NoWait(state) == TRUE
\* worker.join() returns once the worker thread has terminated.
JoinReady(state) == state \in {"ended", "died"}

ReplyTarget_Other(cmd) == IF cmd.caller = 1 THEN 2 ELSE 1
\* The reply Sender carried by a command belongs to the caller that built it.
ReplyTarget(cmd) == cmd.caller

OpenOk_Any(h) == TRUE
\* init_worker(): `if handle < 0 { ... return Err(OpenFailed(err)) }`
OpenOk(h) == h >= 0

InitOk_Any(msg) == TRUE
\* create_new_worker(): init_rx.recv()??: only Ok(()) lets open go on to build
\* the SharedWorker; an Err is returned to the caller.
InitOk(msg) == msg = "Ok"

\* The public method that builds a command of this kind: last_error returns
\* Option<String>, the seven operations return Result.
MethodOf(kind) == IF kind = "LastError" THEN "last_error" ELSE "op"

\* Native return values a dispatch may see, per command kind.
NativeRets(kind) == IF kind = "Delete" THEN DeleteRets ELSE PtrRets

\* Result of handle_put/get/delete/list_by_prefix/list_by_table/history/query
\* for a native return value.
HandleResult(kind, ret) ==
    CASE kind = "Put" -> IF ret = "null" THEN "OperationFailed" ELSE "Ok"
      [] kind = "Get" -> IF ret = "null" THEN "NotFound" ELSE "Ok"
      [] kind = "Delete" -> IF ret = "0" THEN "Ok"
                            ELSE IF ret = "1" THEN "NotFound" ELSE "OperationFailed"
      [] kind \in {"ListByPrefix", "ListByTable", "History"} ->
                            IF ret = "null" THEN "OkEmpty" ELSE "Ok"
      [] kind = "Query" -> IF ret = "null" THEN "OperationFailed" ELSE "Ok"
      [] kind = "LastError" -> IF ret = "null" THEN "None" ELSE "Some"

\* Worker thread positions at which a native call is executing.
NativePcs == {"create_isolate", "open", "open_last_error", "open_free_string",
              "open_tear_down", "op", "close", "tear_down"}
InNative(w) == wpc[w] \in NativePcs

\* A native session: from a successful chrondb_open until tear-down finished.
SessionPcs == {"recv", "op", "close", "tear_down"}
SessionOpen(w) == wpc[w] \in SessionPcs

\* The command Receiver lives from spawn until run_worker_loop returns.
RxOpen(w) == wpc[w] \in {"start", "create_isolate", "open", "open_last_error",
                         "open_free_string", "open_tear_down", "recv", "op"}

RECURSIVE SumOps(_)
SumOps(S) == IF S = {} THEN 0
             ELSE LET c == CHOOSE x \in S : TRUE IN nops[c] + SumOps(S \ {c})
\* Number of commands sent so far by all callers.
TotalOps == SumOps(Callers)

Identity(w) == Canon(wpath[w])
Spawned(w) == wpc[w] # "unspawned"
Live(w) == strong[w] > 0

\* ---------------------------------------------------------------- initial state
NoDownload == [ran |-> FALSE, tempCreated |-> FALSE, removeAttempted |-> FALSE,
               result |-> "none"]
\* Document ids and documents (serde_json::Value) a caller may pass.
Ids == {"user:1", "user:2"}
Docs == {"alice", "bob"}
NoDoc == "absent"
NoEntry == [doc |-> NoDoc, sess |-> 0]
NoStoreRes == [op |-> "none", id |-> "", doc |-> NoDoc, res |-> Res("none", "")]

\* Process start: the storage is empty and not open, no handle exists.
StoreStart ==
    /\ disk = [i \in Ids |-> NoDoc]
    /\ diskHeld = FALSE
    /\ stHandles = 0
    /\ stPc = "idle"
    /\ stWorker = "none"
    /\ stHandle = -1
    /\ stSessions = 0
    /\ stRes = NoStoreRes
    /\ stPrev = NoStoreRes
    /\ stModel = [i \in Ids |-> NoEntry]

\* Process start: the once-cells are empty, no thread is in get_library().
SetupStart ==
    /\ tempDir = FALSE
    /\ setupResult = "uninit"
    /\ library = "uninit"
    /\ tpc = [w \in Workers |-> "idle"]
    /\ tret = [w \in Workers |-> [tag |-> "none", text |-> "", stage |-> "none"]]
    /\ existChecks = 0 /\ downloads = 0 /\ loads = 0
    /\ lastDownload = NoDownload
    /\ firstAttempt = "none"

Init ==
    /\ fsExists = FALSE
    /\ libState = "uninit"
    /\ registry = [k \in PathStrs |-> None]
    /\ pc = [c \in Callers |-> "idle"]
    /\ cpath = [c \in Callers |-> "abs"]
    /\ ckey = [c \in Callers |-> "abs"]
    /\ cw = [c \in Callers |-> None]
    /\ shared = [c \in Callers |-> None]
    /\ nops = [c \in Callers |-> 0]
    /\ replyChan = [c \in Callers |-> <<>>]
    /\ lastReply = [c \in Callers |-> NoReply]
    /\ opKind = [c \in Callers |-> "none"]
    /\ openErr = [c \in Callers |-> "none"]
    /\ lock = None
    /\ wpc = [w \in Workers |-> "unspawned"]
    /\ wpath = [w \in Workers |-> "abs"]
    /\ wkey = [w \in Workers |-> "abs"]
    /\ strong = [w \in Workers |-> 0]
    /\ queue = [w \in Workers |-> <<>>]
    /\ cur = [w \in Workers |-> NoCmd]
    /\ initMsg = [w \in Workers |-> "none"]
    /\ whandle = [w \in Workers |-> -1]
    /\ isolate = [w \in Workers |-> "none"]
    /\ wthread = [w \in Workers |-> FALSE]
    /\ arrived = [w \in Workers |-> <<>>]
    /\ processed = [w \in Workers |-> <<>>]
    /\ seenAtStart = [c \in Callers |-> {}]
    /\ dropDone = [w \in Workers |-> FALSE]
    /\ sharedDrop = [w \in Workers |-> FALSE]
    /\ sState = "none"
    /\ sHandle = -1
    /\ sThread = FALSE
    /\ sIsolates = 0
    /\ sIn = NoIn
    /\ sOut = NoOut
    /\ sCloses = 0
    /\ sCloseLog = <<>>
    /\ envLibDir = FALSE /\ envDirHasLib = FALSE /\ homeHasLib = TRUE /\ skipSetup = FALSE
    /\ SetupStart
    /\ StoreStart

\* ---------------------------------------------------------------- ChronDB::open

\* open(): canonicalize both paths and build the key.
OpenStart(c, p) ==
    /\ pc[c] = "idle"
    /\ pc' = [pc EXCEPT ![c] = "lookup"]
    /\ cpath' = [cpath EXCEPT ![c] = p]
    /\ ckey' = [ckey EXCEPT ![c] = Key(p, fsExists)]
    /\ openErr' = [openErr EXCEPT ![c] = "none"]
    /\ seenAtStart' = [seenAtStart EXCEPT ![c] = {shared[d] : d \in Callers} \ {None}]
    /\ UNCHANGED <<fsExists, libState, registry, cw, shared, nops, replyChan, lastReply,
                   strong, arrived, dropDone>>
    /\ UNCHANGED workerVars
    /\ UNCHANGED <<lock, opKind, nonBrokerVars>>

Unlock_Kept(l) == l
\* The MutexGuard is dropped at the end of the block that took it.
Unlock(l) == None

\* Places where a thread calls get_worker_registry().lock().
LockPcs == {"lookup", "register", "drop_remove"}

\* get_worker_registry().lock(): blocks while another thread holds the mutex.
RegistryLock(c) ==
    /\ pc[c] \in LockPcs
    /\ lock = None
    /\ lock' = c
    /\ UNCHANGED callerVars
    /\ UNCHANGED workerVars
    /\ UNCHANGED <<fsExists, libState, registry, strong, arrived, dropDone>>
    /\ UNCHANGED <<opKind, nonBrokerVars>>

\* open(): registry lookup under the lock; reuse the worker if its Weak
\* upgrades, otherwise create_new_worker() creates the channels and spawns
\* the worker thread.
OpenLookup(c) ==
    /\ lock = c
    /\ pc[c] = "lookup"
    /\ LET r == registry[ckey[c]] IN
         IF r # None /\ Upgrade(r)
         THEN /\ strong' = [strong EXCEPT ![r] = @ + 1]
              /\ shared' = [shared EXCEPT ![c] = r]
              /\ pc' = [pc EXCEPT ![c] = "ready"]
              /\ cpath' = [cpath EXCEPT ![c] = "abs"]
              /\ ckey' = [ckey EXCEPT ![c] = "abs"]
              /\ seenAtStart' = [seenAtStart EXCEPT ![c] = {}]
              /\ UNCHANGED <<cw, wpc, wpath, wkey>>
         ELSE /\ \E w \in Workers :
                   /\ wpc[w] = "unspawned"
                   /\ \A v \in Workers : v < w => wpc[v] # "unspawned"
                   /\ wpc' = [wpc EXCEPT ![w] = "start"]
                   /\ wpath' = [wpath EXCEPT ![w] = cpath[c]]
                   /\ wkey' = [wkey EXCEPT ![w] = ckey[c]]
                   /\ cw' = [cw EXCEPT ![c] = w]
              /\ pc' = [pc EXCEPT ![c] = "wait_init"]
              /\ UNCHANGED <<strong, shared, cpath, ckey, seenAtStart>>
    /\ UNCHANGED <<sharedDrop, fsExists, libState, registry, nops, replyChan, lastReply, openErr,
                   arrived, dropDone, queue, cur, initMsg, whandle, isolate,
                   wthread, processed>>
    /\ lock' = Unlock(lock)
    /\ UNCHANGED <<opKind, nonBrokerVars>>

SpawnError_Io == "Io"
\* create_new_worker(): .spawn(..).map_err(|_| ChronDBError::IsolateCreationFailed)
SpawnError == "IsolateCreationFailed"

\* create_new_worker(): after a lookup miss thread::Builder::spawn fails;
\* open returns IsolateCreationFailed.
OpenSpawnFail(c) ==
    /\ lock = c
    /\ pc[c] = "lookup"
    /\ LET r == registry[ckey[c]] IN ~(r # None /\ Upgrade(r))
    /\ pc' = [pc EXCEPT ![c] = "idle"]
    /\ openErr' = [openErr EXCEPT ![c] = SpawnError]
    /\ cpath' = [cpath EXCEPT ![c] = "abs"]
    /\ ckey' = [ckey EXCEPT ![c] = "abs"]
    /\ seenAtStart' = [seenAtStart EXCEPT ![c] = {}]
    /\ UNCHANGED <<fsExists, libState, registry, cw, shared, nops, replyChan, lastReply,
                   strong, arrived, dropDone>>
    /\ UNCHANGED workerVars
    /\ lock' = Unlock(lock)
    /\ UNCHANGED <<opKind, nonBrokerVars>>

\* create_new_worker(): init_rx.recv(); on Ok build the Arc<SharedWorker>,
\* on Err return the error from open.
OpenInitRecv(c) ==
    /\ pc[c] = "wait_init"
    /\ initMsg[cw[c]] # "none"
    /\ initMsg' = [initMsg EXCEPT ![cw[c]] = "none"]
    /\ IF InitOk(initMsg[cw[c]])
       THEN /\ strong' = [strong EXCEPT ![cw[c]] = 1]
            /\ pc' = [pc EXCEPT ![c] = "register"]
            /\ UNCHANGED <<cw, openErr, cpath, ckey, seenAtStart, wpath, wkey>>
       ELSE /\ openErr' = [openErr EXCEPT ![c] = initMsg[cw[c]]]
            /\ pc' = [pc EXCEPT ![c] = "idle"]
            /\ cw' = [cw EXCEPT ![c] = None]
            /\ cpath' = [cpath EXCEPT ![c] = "abs"]
            /\ ckey' = [ckey EXCEPT ![c] = "abs"]
            /\ seenAtStart' = [seenAtStart EXCEPT ![c] = {}]
            /\ wpath' = [wpath EXCEPT ![cw[c]] = "abs"]
            /\ wkey' = [wkey EXCEPT ![cw[c]] = "abs"]
            /\ UNCHANGED strong
    /\ UNCHANGED <<sharedDrop, fsExists, libState, registry, shared, nops, replyChan,
                   lastReply, arrived, dropDone, wpc, queue, cur, whandle, isolate,
                   wthread, processed>>
    /\ UNCHANGED <<lock, opKind, nonBrokerVars>>

\* open(): registry.insert(key, Arc::downgrade(&shared)) under the lock, return.
OpenRegister(c) ==
    /\ lock = c
    /\ pc[c] = "register"
    /\ registry' = [registry EXCEPT ![ckey[c]] = cw[c]]
    /\ shared' = [shared EXCEPT ![c] = cw[c]]
    /\ cw' = [cw EXCEPT ![c] = None]
    /\ pc' = [pc EXCEPT ![c] = "ready"]
    /\ cpath' = [cpath EXCEPT ![c] = "abs"]
    /\ ckey' = [ckey EXCEPT ![c] = "abs"]
    /\ seenAtStart' = [seenAtStart EXCEPT ![c] = {}]
    /\ UNCHANGED <<fsExists, libState, nops, replyChan, lastReply, openErr,
                   strong, arrived, dropDone>>
    /\ UNCHANGED workerVars
    /\ lock' = Unlock(lock)
    /\ UNCHANGED <<opKind, nonBrokerVars>>

\* ---------------------------------------------------------------- worker thread

\* init_worker(): ffi::get_library(); the outcome of the first call is
\* memoized and replayed to every later call.
WorkerGetLibrary(w) ==
    /\ wpc[w] = "start"
    /\ \E outcome \in {"ok", "failed"} :
         /\ libState # "uninit" => outcome = libState
         /\ libState' = outcome
         /\ IF outcome = "ok"
            THEN /\ wpc' = [wpc EXCEPT ![w] = "create_isolate"]
                 /\ UNCHANGED initMsg
            ELSE /\ wpc' = [wpc EXCEPT ![w] = "ended"]
                 /\ initMsg' = [initMsg EXCEPT ![w] = "SetupFailed"]
    /\ UNCHANGED <<sharedDrop, fsExists, registry, strong, arrived, dropDone, wpath, wkey, queue, cur,
                   whandle, isolate, wthread, processed>>
    /\ UNCHANGED callerVars
    /\ UNCHANGED <<lock, opKind, nonBrokerVars>>

\* init_worker(): graal_create_isolate returns; a non-zero status fails the
\* open, a zero status goes on to chrondb_open.
WorkerCreateIsolateReturn(w) ==
    /\ wpc[w] = "create_isolate"
    /\ \E ret \in {0, 1} :
         IF ret # 0
         THEN /\ wpc' = [wpc EXCEPT ![w] = "ended"]
              /\ initMsg' = [initMsg EXCEPT ![w] = "IsolateCreationFailed"]
              /\ UNCHANGED isolate
         ELSE /\ wpc' = [wpc EXCEPT ![w] = "open"]
              /\ isolate' = [isolate EXCEPT ![w] = "live"]
              /\ UNCHANGED initMsg
    /\ UNCHANGED <<sharedDrop, fsExists, libState, registry, strong, arrived, dropDone, wpath, wkey,
                   queue, cur, whandle, wthread, processed>>
    /\ UNCHANGED callerVars
    /\ UNCHANGED <<lock, opKind, nonBrokerVars>>

\* init_worker(): chrondb_open returns.  A handle >= 0 builds the
\* FfiWorkerState, the thread sends Ok on init_tx and enters run_worker_loop;
\* a negative handle goes on to chrondb_last_error.  A successful open leaves
\* the storage directories on disk (test_data_persists_across_sessions opens
\* paths that do not exist yet and reopens them).
WorkerOpenReturn(w) ==
    /\ wpc[w] = "open"
    /\ \E h \in {-1, 0} :
         IF ~OpenOk(h)
         THEN /\ wpc' = [wpc EXCEPT ![w] = "open_last_error"]
              /\ UNCHANGED <<fsExists, whandle, wthread, initMsg>>
         ELSE /\ wpc' = [wpc EXCEPT ![w] = "recv"]
              /\ fsExists' = TRUE
              /\ whandle' = [whandle EXCEPT ![w] = h]
              /\ wthread' = [wthread EXCEPT ![w] = TRUE]
              /\ initMsg' = [initMsg EXCEPT ![w] = "Ok"]
    /\ UNCHANGED <<sharedDrop, libState, registry, strong, arrived, dropDone, wpath, wkey, queue, cur,
                   isolate, processed>>
    /\ UNCHANGED callerVars
    /\ UNCHANGED <<lock, opKind, nonBrokerVars>>

\* init_worker(): chrondb_last_error returns; a non-null text is freed.
WorkerOpenLastErrorReturn(w) ==
    /\ wpc[w] = "open_last_error"
    /\ \E ptr \in PtrRets :
         wpc' = [wpc EXCEPT ![w] =
                    IF ptr = "null" THEN "open_tear_down" ELSE "open_free_string"]
    /\ UNCHANGED <<sharedDrop, fsExists, libState, registry, strong, arrived, dropDone, wpath, wkey,
                   queue, cur, initMsg, whandle, isolate, wthread, processed>>
    /\ UNCHANGED callerVars
    /\ UNCHANGED <<lock, opKind, nonBrokerVars>>

\* init_worker(): chrondb_free_string returns, graal_tear_down_isolate is called.
WorkerOpenFreeStringReturn(w) ==
    /\ wpc[w] = "open_free_string"
    /\ wpc' = [wpc EXCEPT ![w] = "open_tear_down"]
    /\ UNCHANGED <<sharedDrop, fsExists, libState, registry, strong, arrived, dropDone, wpath, wkey,
                   queue, cur, initMsg, whandle, isolate, wthread, processed>>
    /\ UNCHANGED callerVars
    /\ UNCHANGED <<lock, opKind, nonBrokerVars>>

\* init_worker(): graal_tear_down_isolate returns; the thread sends
\* Err(OpenFailed) on init_tx and ends.
WorkerOpenTearDownReturn(w) ==
    /\ wpc[w] = "open_tear_down"
    /\ wpc' = [wpc EXCEPT ![w] = "ended"]
    /\ isolate' = [isolate EXCEPT ![w] = "torn"]
    /\ initMsg' = [initMsg EXCEPT ![w] = "OpenFailed"]
    /\ UNCHANGED <<sharedDrop, fsExists, libState, registry, strong, arrived, dropDone, wpath, wkey,
                   queue, cur, whandle, wthread, processed>>
    /\ UNCHANGED callerVars
    /\ UNCHANGED <<lock, opKind, nonBrokerVars>>

LoopExit_Continue(h) == "recv"
\* `FfiCommand::Shutdown => break`: the loop is left and the closure calls
\* state.close(), whose first native call is chrondb_close when the handle
\* is >= 0 and graal_tear_down_isolate otherwise.
LoopExit(h) == IF h >= 0 THEN "close" ELSE "tear_down"

\* run_worker_loop(): rx.recv() yields the next command.  Shutdown breaks the
\* loop and close() calls chrondb_close; any other command is dispatched to
\* its handle_* method, which enters the native call.
WorkerRecv(w) ==
    /\ wpc[w] = "recv"
    /\ queue[w] # <<>>
    /\ LET cmd == NextCmd(queue[w]) IN
         /\ queue' = [queue EXCEPT ![w] = Dequeue(@)]
         /\ IF cmd.kind = "Shutdown"
            THEN /\ wpc' = [wpc EXCEPT ![w] = LoopExit(whandle[w])]
                 /\ UNCHANGED <<cur, processed>>
            ELSE /\ wpc' = [wpc EXCEPT ![w] = "op"]
                 /\ cur' = [cur EXCEPT ![w] = cmd]
                 /\ processed' = [processed EXCEPT ![w] = Append(@, <<cmd.caller, cmd.n>>)]
    /\ UNCHANGED <<sharedDrop, fsExists, libState, registry, strong, arrived, dropDone, wpath, wkey,
                   initMsg, whandle, isolate, wthread>>
    /\ UNCHANGED callerVars
    /\ UNCHANGED <<lock, opKind, nonBrokerVars>>

\* The Receiver of a command's private reply channel still exists: the
\* caller that holds it is blocked in reply_rx.recv() of that very command.
ReceiverAlive(c, cmd) == pc[c] = "wait_reply" /\ nops[c] = cmd.n

AfterReply_Unwrap(sent) == IF sent THEN "recv" ELSE "died"
\* `let _ = reply.send(result);`: the Result of the send is discarded, so the
\* loop goes back to rx.recv() whether or not the send succeeded.
AfterReply(sent) == "recv"

\* run_worker_loop(): the native call of the current command returns, the
\* result is sent on the command's reply channel (a send to an abandoned
\* receiver is ignored) and the loop goes back to rx.recv().
WorkerOpReturn(w) ==
    /\ wpc[w] = "op"
    /\ \E ret \in NativeRets(cur[w].kind) :
         LET c == ReplyTarget(cur[w])
             msg == [caller |-> cur[w].caller, n |-> cur[w].n,
                     res |-> HandleResult(cur[w].kind, ret)]
         IN  /\ replyChan' = IF ReceiverAlive(c, cur[w])
                             THEN [replyChan EXCEPT ![c] = Append(@, msg)]
                             ELSE replyChan
             /\ wpc' = [wpc EXCEPT ![w] = AfterReply(ReceiverAlive(c, cur[w]))]
    /\ cur' = [cur EXCEPT ![w] = NoCmd]
    /\ UNCHANGED <<sharedDrop, fsExists, libState, registry, strong, arrived, dropDone, wpath, wkey,
                   queue, initMsg, whandle, isolate, wthread, processed>>
    /\ UNCHANGED <<pc, cpath, ckey, cw, shared, nops, lastReply, openErr, seenAtStart>>
    /\ UNCHANGED <<lock, opKind, nonBrokerVars>>

\* close(): chrondb_close returns, handle = -1, graal_tear_down_isolate is called.
WorkerCloseReturn(w) ==
    /\ wpc[w] = "close"
    /\ whandle' = [whandle EXCEPT ![w] = -1]
    /\ wpc' = [wpc EXCEPT ![w] = IF wthread[w] THEN "tear_down" ELSE "ended"]
    /\ UNCHANGED <<sharedDrop, fsExists, libState, registry, strong, arrived, dropDone, wpath, wkey,
                   queue, cur, initMsg, isolate, wthread, processed>>
    /\ UNCHANGED callerVars
    /\ UNCHANGED <<lock, opKind, nonBrokerVars>>

\* close(): graal_tear_down_isolate returns, thread = null; the worker thread ends.
WorkerTearDownReturn(w) ==
    /\ wpc[w] = "tear_down"
    /\ wthread' = [wthread EXCEPT ![w] = FALSE]
    /\ isolate' = [isolate EXCEPT ![w] = "torn"]
    /\ wpc' = [wpc EXCEPT ![w] = "ended"]
    /\ UNCHANGED <<sharedDrop, fsExists, libState, registry, strong, arrived, dropDone, wpath, wkey,
                   queue, cur, initMsg, whandle, processed>>
    /\ UNCHANGED callerVars
    /\ UNCHANGED <<lock, opKind, nonBrokerVars>>

\* ---------------------------------------------------------------- operations

\* put/get/delete/list_by_prefix/list_by_table/history/query/last_error:
\* build the command with a fresh reply channel and send it.
OpSend(c, kind) ==
    /\ pc[c] = "ready"
    /\ TotalOps < MaxOps
    /\ RxOpen(shared[c])
    /\ LET w == shared[c]
           cmd == [kind |-> kind, caller |-> c, n |-> nops[c] + 1]
       IN  /\ queue' = [queue EXCEPT ![w] = Append(@, cmd)]
           /\ arrived' = [arrived EXCEPT ![w] = Append(@, <<c, nops[c] + 1>>)]
    /\ nops' = [nops EXCEPT ![c] = @ + 1]
    /\ replyChan' = [replyChan EXCEPT ![c] = <<>>]
    /\ pc' = [pc EXCEPT ![c] = "wait_reply"]
    /\ lastReply' = [lastReply EXCEPT ![c] = NoReply]
    /\ UNCHANGED <<sharedDrop, fsExists, libState, registry, cpath, ckey, cw, shared, openErr,
                   strong, seenAtStart, dropDone, wpc, wpath, wkey, cur, initMsg, whandle,
                   isolate, wthread, processed>>
    /\ opKind' = [opKind EXCEPT ![c] = MethodOf(kind)]
    /\ UNCHANGED <<lock, nonBrokerVars>>

\* reply_rx.recv(): the operation returns the reply.
OpRecv(c) ==
    /\ pc[c] = "wait_reply"
    /\ replyChan[c] # <<>>
    /\ lastReply' = [lastReply EXCEPT ![c] = Head(replyChan[c])]
    /\ replyChan' = [replyChan EXCEPT ![c] = Tail(@)]
    /\ pc' = [pc EXCEPT ![c] = "ready"]
    /\ UNCHANGED <<fsExists, libState, registry, cpath, ckey, cw, shared, nops, openErr,
                   strong, arrived, seenAtStart, dropDone>>
    /\ UNCHANGED workerVars
    /\ UNCHANGED <<lock, opKind, nonBrokerVars>>

\* ---------------------------------------------------------------- drop

\* drop(ChronDB): release the Arc; the release of the last strong reference
\* runs SharedWorker::drop.
DropHandle(c) ==
    /\ pc[c] = "ready"
    /\ LET w == shared[c] IN
         /\ strong' = [strong EXCEPT ![w] = @ - 1]
         /\ IF LastRef(strong[w])
            THEN /\ pc' = [pc EXCEPT ![c] = "drop_remove"]
                 /\ cw' = [cw EXCEPT ![c] = w]
            ELSE /\ pc' = [pc EXCEPT ![c] = "idle"]
                 /\ UNCHANGED cw
         /\ sharedDrop' = [sharedDrop EXCEPT ![w] = @ \/ ~LastRef(strong[w])]
    /\ shared' = [shared EXCEPT ![c] = None]
    /\ lastReply' = [lastReply EXCEPT ![c] = NoReply]
    /\ UNCHANGED <<fsExists, libState, registry, cpath, ckey, nops, replyChan,
                   openErr, arrived, seenAtStart, dropDone>>
    /\ UNCHANGED <<wpc, wpath, wkey, queue, cur, initMsg, whandle, isolate, wthread, processed>>
    /\ opKind' = [opKind EXCEPT ![c] = "none"]
    /\ UNCHANGED <<lock, nonBrokerVars>>

\* SharedWorker::drop: registry.remove(&key) under the lock.
DropRemove(c) ==
    /\ lock = c
    /\ pc[c] = "drop_remove"
    /\ registry' = [registry EXCEPT ![wkey[cw[c]]] = None]
    /\ pc' = [pc EXCEPT ![c] = "drop_send"]
    /\ UNCHANGED <<fsExists, libState, cpath, ckey, cw, shared, nops, replyChan, lastReply,
                   openErr, strong, arrived, seenAtStart, dropDone>>
    /\ UNCHANGED workerVars
    /\ lock' = Unlock(lock)
    /\ UNCHANGED <<opKind, nonBrokerVars>>

\* SharedWorker::drop: sender.send(FfiCommand::Shutdown), result ignored.
DropSend(c) ==
    /\ pc[c] = "drop_send"
    /\ LET w == cw[c] IN
         IF RxOpen(w)
         THEN /\ queue' = [queue EXCEPT ![w] = Append(@, ShutdownCmd)]
              /\ arrived' = [arrived EXCEPT ![w] = Append(@, <<0, 0>>)]
         ELSE UNCHANGED <<queue, arrived>>
    /\ pc' = [pc EXCEPT ![c] = "drop_join"]
    /\ UNCHANGED <<sharedDrop, fsExists, libState, registry, cpath, ckey, cw, shared, nops, replyChan,
                   lastReply, openErr, strong, seenAtStart, dropDone, wpc, wpath, wkey, cur,
                   initMsg, whandle, isolate, wthread, processed>>
    /\ UNCHANGED <<lock, opKind, nonBrokerVars>>

\* SharedWorker::drop: worker.join() returns when the worker thread has ended;
\* the SharedWorker's fields (sender, paths) are then released.
DropJoin(c) ==
    /\ pc[c] = "drop_join"
    /\ JoinReady(wpc[cw[c]])
    /\ dropDone' = [dropDone EXCEPT ![cw[c]] = TRUE]
    /\ queue' = [queue EXCEPT ![cw[c]] = <<>>]
    /\ arrived' = [arrived EXCEPT ![cw[c]] = <<>>]
    /\ processed' = [processed EXCEPT ![cw[c]] = <<>>]
    /\ wpath' = [wpath EXCEPT ![cw[c]] = "abs"]
    /\ wkey' = [wkey EXCEPT ![cw[c]] = "abs"]
    /\ sharedDrop' = [sharedDrop EXCEPT ![cw[c]] = FALSE]
    /\ cw' = [cw EXCEPT ![c] = None]
    /\ pc' = [pc EXCEPT ![c] = "idle"]
    /\ UNCHANGED <<fsExists, libState, registry, cpath, ckey, shared, nops, replyChan,
                   lastReply, openErr, strong, seenAtStart, wpc, cur, initMsg, whandle,
                   isolate, wthread>>
    /\ UNCHANGED <<lock, opKind, nonBrokerVars>>

\* ---------------------------------------------------------------- specification
Next ==
    \/ \E c \in Callers, p \in PathStrs : OpenStart(c, p)
    \/ \E c \in Callers : RegistryLock(c)
    \/ \E c \in Callers : OpenLookup(c)
    \/ \E c \in Callers : OpenSpawnFail(c)
    \/ \E c \in Callers : OpenInitRecv(c)
    \/ \E c \in Callers : OpenRegister(c)
    \/ \E c \in Callers, k \in CmdKinds : OpSend(c, k)
    \/ \E c \in Callers : OpRecv(c)
    \/ \E c \in Callers : DropHandle(c)
    \/ \E c \in Callers : DropRemove(c)
    \/ \E c \in Callers : DropSend(c)
    \/ \E c \in Callers : DropJoin(c)
    \/ \E w \in Workers : WorkerGetLibrary(w)
    \/ \E w \in Workers : WorkerCreateIsolateReturn(w)
    \/ \E w \in Workers : WorkerOpenReturn(w)
    \/ \E w \in Workers : WorkerOpenLastErrorReturn(w)
    \/ \E w \in Workers : WorkerOpenFreeStringReturn(w)
    \/ \E w \in Workers : WorkerOpenTearDownReturn(w)
    \/ \E w \in Workers : WorkerRecv(w)
    \/ \E w \in Workers : WorkerOpReturn(w)
    \/ \E w \in Workers : WorkerCloseReturn(w)
    \/ \E w \in Workers : WorkerTearDownReturn(w)

Spec == Init /\ [][Next]_vars

\* ---------------------------------------------------------------- scheduling
\* The steps a caller thread takes inside a call it has started: everything
\* but the decision to call open, call an operation or drop a handle.
CallerStep(c) ==
    \/ OpenLookup(c) \/ OpenSpawnFail(c) \/ OpenInitRecv(c) \/ OpenRegister(c)
    \/ OpRecv(c)
    \/ DropRemove(c) \/ DropSend(c) \/ DropJoin(c)

\* The steps of a worker thread: every native call returns and rx.recv()
\* returns when a command is queued.
WorkerStep(w) ==
    \/ WorkerGetLibrary(w) \/ WorkerCreateIsolateReturn(w) \/ WorkerOpenReturn(w)
    \/ WorkerOpenLastErrorReturn(w) \/ WorkerOpenFreeStringReturn(w)
    \/ WorkerOpenTearDownReturn(w)
    \/ WorkerRecv(w) \/ WorkerOpReturn(w)
    \/ WorkerCloseReturn(w) \/ WorkerTearDownReturn(w)

\* Threads are scheduled fairly: a thread that can take a step takes it, and
\* a thread blocked on the registry mutex gets it if it is released again
\* and again.
Fairness ==
    /\ \A c \in Callers : WF_vars(CallerStep(c)) /\ SF_vars(RegistryLock(c))
    /\ \A w \in Workers : WF_vars(WorkerStep(w))

\* Command kinds sent under the fair specification and under the one with
\* abandoned replies: one operation and last_error, the two methods of the
\* loop that answer on a reply channel.
LiveKinds == {"Get", "LastError"}

\* Paths opened under those two specifications: the spelling whose registry
\* key changes once the directories exist, so that callers of one storage
\* meet both on one worker and on several.
LivePaths == {"rel"}

NextLive ==
    \/ \E c \in Callers, p \in LivePaths : OpenStart(c, p)
    \/ \E c \in Callers : RegistryLock(c)
    \/ \E c \in Callers : OpenLookup(c)
    \/ \E c \in Callers : OpenSpawnFail(c)
    \/ \E c \in Callers : OpenInitRecv(c)
    \/ \E c \in Callers : OpenRegister(c)
    \/ \E c \in Callers, k \in LiveKinds : OpSend(c, k)
    \/ \E c \in Callers : OpRecv(c)
    \/ \E c \in Callers : DropHandle(c)
    \/ \E c \in Callers : DropRemove(c)
    \/ \E c \in Callers : DropSend(c)
    \/ \E c \in Callers : DropJoin(c)
    \/ \E w \in Workers : WorkerGetLibrary(w)
    \/ \E w \in Workers : WorkerCreateIsolateReturn(w)
    \/ \E w \in Workers : WorkerOpenReturn(w)
    \/ \E w \in Workers : WorkerOpenLastErrorReturn(w)
    \/ \E w \in Workers : WorkerOpenFreeStringReturn(w)
    \/ \E w \in Workers : WorkerOpenTearDownReturn(w)
    \/ \E w \in Workers : WorkerRecv(w)
    \/ \E w \in Workers : WorkerOpReturn(w)
    \/ \E w \in Workers : WorkerCloseReturn(w)
    \/ \E w \in Workers : WorkerTearDownReturn(w)

SpecLive == Init /\ [][NextLive]_vars /\ Fairness

\* ---------------------------------------------------------------- abandoned reply
\* The holder of a command's reply Receiver drops it before the worker has
\* answered.
\* No method of ChronDB does so (each blocks in reply_rx.recv()); the step is
\* an input of run_worker_loop, whose commands carry a Sender that may have
\* lost its Receiver.  The holder is back where it may send again or drop.
OpAbandon(c) ==
    /\ pc[c] = "wait_reply"
    /\ replyChan[c] = <<>>
    /\ pc' = [pc EXCEPT ![c] = "ready"]
    /\ UNCHANGED <<fsExists, libState, registry, cpath, ckey, cw, shared, nops, replyChan, lastReply,
                   openErr, strong, arrived, seenAtStart, dropDone>>
    /\ UNCHANGED workerVars
    /\ UNCHANGED <<lock, opKind, nonBrokerVars>>

NextLoop ==
    \/ \E c \in Callers, p \in LivePaths : OpenStart(c, p)
    \/ \E c \in Callers : RegistryLock(c)
    \/ \E c \in Callers : OpenLookup(c)
    \/ \E c \in Callers : OpenSpawnFail(c)
    \/ \E c \in Callers : OpenInitRecv(c)
    \/ \E c \in Callers : OpenRegister(c)
    \/ \E c \in Callers, k \in LiveKinds : OpSend(c, k)
    \/ \E c \in Callers : OpRecv(c)
    \/ \E c \in Callers : DropHandle(c)
    \/ \E c \in Callers : DropRemove(c)
    \/ \E c \in Callers : DropSend(c)
    \/ \E c \in Callers : DropJoin(c)
    \/ \E w \in Workers : WorkerGetLibrary(w)
    \/ \E w \in Workers : WorkerCreateIsolateReturn(w)
    \/ \E w \in Workers : WorkerOpenReturn(w)
    \/ \E w \in Workers : WorkerOpenLastErrorReturn(w)
    \/ \E w \in Workers : WorkerOpenFreeStringReturn(w)
    \/ \E w \in Workers : WorkerOpenTearDownReturn(w)
    \/ \E w \in Workers : WorkerRecv(w)
    \/ \E w \in Workers : WorkerOpReturn(w)
    \/ \E w \in Workers : WorkerCloseReturn(w)
    \/ \E w \in Workers : WorkerTearDownReturn(w)
    \/ \E c \in Callers : OpAbandon(c)

SpecLoop == Init /\ [][NextLoop]_vars

\* ---------------------------------------------------------------- worker death
\* The error of an operation whose command or reply channel is disconnected.
WorkerDied == "worker thread died"

PanicQueue_Kept(q) == q
\* The Receiver is dropped when the worker thread unwinds, and with it every
\* command still queued, each with the reply Sender it carries.
PanicQueue(q) == <<>>

\* The reply Sender of the caller's pending command still exists: the command
\* is queued or is the one being dispatched.
ReplySenderAlive(c) ==
    LET w == shared[c] IN
        \/ \E i \in 1..Len(queue[w]) : queue[w][i].caller = c /\ queue[w][i].n = nops[c]
        \/ cur[w].caller = c /\ cur[w].n = nops[c]

\* Result of a method whose send or recv found the channel disconnected:
\* the operations map the error to OperationFailed("worker thread died"),
\* last_error to None.
Disconnected(method) == IF method = "last_error" THEN "None" ELSE WorkerDied

\* The worker thread terminates inside a handler without having received
\* Shutdown: the command in flight, the Receiver and the queued commands are
\* dropped; close() does not run.
WorkerPanic(w) ==
    /\ wpc[w] = "op"
    /\ wpc' = [wpc EXCEPT ![w] = "died"]
    /\ queue' = [queue EXCEPT ![w] = PanicQueue(@)]
    /\ cur' = [cur EXCEPT ![w] = NoCmd]
    /\ processed' = [processed EXCEPT ![w] =
                        SelectSeq(@, LAMBDA id : id # <<cur[w].caller, cur[w].n>>)]
    /\ UNCHANGED <<sharedDrop, fsExists, libState, registry, strong, arrived, dropDone, wpath,
                   wkey, initMsg, whandle, isolate, wthread>>
    /\ UNCHANGED callerVars
    /\ UNCHANGED <<lock, opKind, nonBrokerVars>>

\* put .. last_error: sender.send(cmd) fails because the Receiver is gone;
\* the method returns at once.
OpSendFail(c, kind) ==
    /\ pc[c] = "ready"
    /\ TotalOps < MaxOps
    /\ ~RxOpen(shared[c])
    /\ nops' = [nops EXCEPT ![c] = @ + 1]
    /\ opKind' = [opKind EXCEPT ![c] = MethodOf(kind)]
    /\ lastReply' = [lastReply EXCEPT ![c] =
                        [caller |-> c, n |-> nops[c] + 1, res |-> Disconnected(MethodOf(kind))]]
    /\ replyChan' = [replyChan EXCEPT ![c] = <<>>]
    /\ UNCHANGED <<fsExists, libState, registry, pc, cpath, ckey, cw, shared, openErr,
                   strong, arrived, seenAtStart, dropDone>>
    /\ UNCHANGED workerVars
    /\ UNCHANGED <<lock, nonBrokerVars>>

\* put .. last_error: reply_rx.recv() fails because the reply Sender was
\* dropped without a reply.
OpRecvFail(c) ==
    /\ pc[c] = "wait_reply"
    /\ replyChan[c] = <<>>
    /\ ~ReplySenderAlive(c)
    /\ lastReply' = [lastReply EXCEPT ![c] =
                        [caller |-> c, n |-> nops[c], res |-> Disconnected(opKind[c])]]
    /\ pc' = [pc EXCEPT ![c] = "ready"]
    /\ UNCHANGED <<fsExists, libState, registry, cpath, ckey, cw, shared, nops, openErr,
                   replyChan, strong, arrived, seenAtStart, dropDone>>
    /\ UNCHANGED workerVars
    /\ UNCHANGED <<lock, opKind, nonBrokerVars>>

NextDeath ==
    \/ \E c \in Callers, p \in PathStrs : OpenStart(c, p)
    \/ \E c \in Callers : RegistryLock(c)
    \/ \E c \in Callers : OpenLookup(c)
    \/ \E c \in Callers : OpenSpawnFail(c)
    \/ \E c \in Callers : OpenInitRecv(c)
    \/ \E c \in Callers : OpenRegister(c)
    \/ \E c \in Callers, k \in CmdKinds : OpSend(c, k)
    \/ \E c \in Callers, k \in CmdKinds : OpSendFail(c, k)
    \/ \E c \in Callers : OpRecv(c)
    \/ \E c \in Callers : OpRecvFail(c)
    \/ \E c \in Callers : DropHandle(c)
    \/ \E c \in Callers : DropRemove(c)
    \/ \E c \in Callers : DropSend(c)
    \/ \E c \in Callers : DropJoin(c)
    \/ \E w \in Workers : WorkerGetLibrary(w)
    \/ \E w \in Workers : WorkerCreateIsolateReturn(w)
    \/ \E w \in Workers : WorkerOpenReturn(w)
    \/ \E w \in Workers : WorkerOpenLastErrorReturn(w)
    \/ \E w \in Workers : WorkerOpenFreeStringReturn(w)
    \/ \E w \in Workers : WorkerOpenTearDownReturn(w)
    \/ \E w \in Workers : WorkerRecv(w)
    \/ \E w \in Workers : WorkerOpReturn(w)
    \/ \E w \in Workers : WorkerPanic(w)
    \/ \E w \in Workers : WorkerCloseReturn(w)
    \/ \E w \in Workers : WorkerTearDownReturn(w)

\* The program with worker threads that may die inside a handler.
SpecDeath == Init /\ [][NextDeath]_vars

\* ---------------------------------------------------------------- FfiWorkerState
\* The methods of one worker thread's FfiWorkerState, as functions from their
\* arguments and the values the native calls return to an Outcome.

\* CString::new(s) is Ok unless s has an interior NUL byte.
CStringNew(s) == s # "nul"
\* optional_cstring(branch)
OptionalCString(b) == b # "nul"
\* The text of the NulError of CString::new.
NulText == "nul byte found in provided data"
NoCalls(res) == Outcome(res, <<>>, {}, <<>>)

FreeString_Leak(p) == <<>>
\* chrondb_free_string(thread, p), called once after the text was copied.
FreeString(p) == <<p>>
FreeCalls(f) == [i \in 1..Len(f) |-> "chrondb_free_string"]

\* get_last_error(): None for a null pointer; otherwise copy the text, free
\* the pointer, Some(text).
GetLastError(err) ==
    IF err = "null"
    THEN [val |-> "None", calls |-> <<"chrondb_last_error">>, alloc |-> {}, freed |-> <<>>]
    ELSE [val |-> err,
          calls |-> <<"chrondb_last_error">> \o FreeCalls(FreeString("err")),
          alloc |-> {"err"}, freed |-> FreeString("err")]

\* last_error_or(default)
LastErrorOr(err, default) ==
    LET g == GetLastError(err)
    IN  Outcome(Res("OperationFailed", IF g.val = "None" THEN default ELSE g.val),
                g.calls, g.alloc, g.freed)

\* parse_string_result(ptr)
ParseStringResult(ret, err) ==
    IF ret = "null"
    THEN LastErrorOr(err, "null result")
    ELSE Outcome(IF ret = "json" THEN Res("Ok", "") ELSE Res("JsonError", ""),
                 FreeCalls(FreeString("res")), {}, FreeString("res"))

\* The native call `name` returned the pointer `ret`, then `o` ran.
AfterCall(name, ret, o) ==
    Outcome(o.res, <<name>> \o o.calls,
            (IF ret \in StrRets \ {"null"} THEN {"res"} ELSE {}) \cup o.alloc, o.freed)

\* handle_put(id, doc, branch)
HandlePut(in) ==
    IF ~CStringNew(in.a) \/ ~CStringNew(in.b) \/ ~OptionalCString(in.branch)
    THEN NoCalls(Res("OperationFailed", NulText))
    ELSE AfterCall("chrondb_put", in.ret, ParseStringResult(in.ret, in.err))

\* handle_get(id, branch)
HandleGet(in) ==
    IF ~CStringNew(in.a) \/ ~OptionalCString(in.branch)
    THEN NoCalls(Res("OperationFailed", NulText))
    ELSE AfterCall("chrondb_get", in.ret,
                   IF in.ret = "null" THEN NoCalls(Res("NotFound", ""))
                   ELSE ParseStringResult(in.ret, in.err))

DeleteStatus_ZeroOrOne(ret, err) ==
    IF ret = "1" THEN NoCalls(Res("NotFound", "")) ELSE NoCalls(Res("Ok", ""))
\* handle_delete: match ret { 0 => Ok(()), 1 => Err(NotFound),
\*                            _ => Err(last_error_or("delete failed")) }
DeleteStatus(ret, err) ==
    IF ret = "0" THEN NoCalls(Res("Ok", ""))
    ELSE IF ret = "1" THEN NoCalls(Res("NotFound", ""))
    ELSE LastErrorOr(err, "delete failed")

\* handle_delete(id, branch)
HandleDelete(in) ==
    IF ~CStringNew(in.a) \/ ~OptionalCString(in.branch)
    THEN NoCalls(Res("OperationFailed", NulText))
    ELSE AfterCall("chrondb_delete", in.ret, DeleteStatus(in.ret, in.err))

ListOnNull_AsError(err) == LastErrorOr(err, "null result")
\* handle_list_by_prefix/list_by_table/history:
\* if result.is_null() { return Ok(Value::Array(vec![])) }
ListOnNull(err) == NoCalls(Res("OkEmpty", ""))

ListNative(kind) ==
    CASE kind = "ListByPrefix" -> "chrondb_list_by_prefix"
      [] kind = "ListByTable" -> "chrondb_list_by_table"
      [] kind = "History" -> "chrondb_history"

\* handle_list_by_prefix(prefix, branch), handle_list_by_table(table, branch),
\* handle_history(id, branch)
HandleList(in) ==
    IF ~CStringNew(in.a) \/ ~OptionalCString(in.branch)
    THEN NoCalls(Res("OperationFailed", NulText))
    ELSE AfterCall(ListNative(in.kind), in.ret,
                   IF in.ret = "null" THEN ListOnNull(in.err)
                   ELSE ParseStringResult(in.ret, in.err))

QueryOnNull_AsEmpty(err) == NoCalls(Res("OkEmpty", ""))
\* handle_query: if result.is_null() { return Err(last_error_or("query failed")) }
QueryOnNull(err) == LastErrorOr(err, "query failed")

\* handle_query(query, branch)
HandleQuery(in) ==
    IF ~CStringNew(in.a) \/ ~OptionalCString(in.branch)
    THEN NoCalls(Res("OperationFailed", NulText))
    ELSE AfterCall("chrondb_query", in.ret,
                   IF in.ret = "null" THEN QueryOnNull(in.err)
                   ELSE ParseStringResult(in.ret, in.err))

\* FfiCommand::LastError: reply.send(state.get_last_error())
HandleLastError(in) ==
    LET g == GetLastError(in.err)
    IN  Outcome(IF g.val = "None" THEN Res("None", "") ELSE Res("Some", g.val),
                g.calls, g.alloc, g.freed)

\* run_worker_loop(): match cmd { ... }
Dispatch(in) ==
    CASE in.kind = "Put" -> HandlePut(in)
      [] in.kind = "Get" -> HandleGet(in)
      [] in.kind = "Delete" -> HandleDelete(in)
      [] in.kind \in {"ListByPrefix", "ListByTable", "History"} -> HandleList(in)
      [] in.kind = "Query" -> HandleQuery(in)
      [] in.kind = "LastError" -> HandleLastError(in)

\* init_worker(data_path, index_path): the Result, the native calls made, the
\* FfiWorkerState built (live) and the isolates left on the native side.
InitWorker(in) ==
    IF in.lib # "ok"
    THEN [out |-> NoCalls(Res("SetupFailed", "")), live |-> FALSE, handle |-> -1, isolates |-> 0]
    ELSE IF in.create # 0
    THEN [out |-> Outcome(Res("IsolateCreationFailed", ""), <<"graal_create_isolate">>, {}, <<>>),
          live |-> FALSE, handle |-> -1, isolates |-> 0]
    ELSE IF ~CStringNew(in.a) \/ ~CStringNew(in.b)
    THEN [out |-> Outcome(Res("OpenFailed", NulText), <<"graal_create_isolate">>, {}, <<>>),
          live |-> FALSE, handle |-> -1, isolates |-> 1]
    ELSE IF ~OpenOk(in.handle)
    THEN LET f == IF in.err = "null" THEN <<>> ELSE FreeString("err")
         IN  [out |-> Outcome(Res("OpenFailed", IF in.err = "null" THEN "" ELSE in.err),
                              <<"graal_create_isolate", "chrondb_open", "chrondb_last_error">>
                                 \o FreeCalls(f) \o <<"graal_tear_down_isolate">>,
                              IF in.err = "null" THEN {} ELSE {"err"}, f),
              live |-> FALSE, handle |-> -1, isolates |-> 0]
    ELSE [out |-> Outcome(Res("Ok", ""), <<"graal_create_isolate", "chrondb_open">>, {}, <<>>),
          live |-> TRUE, handle |-> in.handle, isolates |-> 1]

ClosedHandle_Kept(h) == h
\* close(): self.handle = -1
ClosedHandle(h) == -1

\* close(): the fields afterwards and the native calls made.
Close(handle, thread) ==
    [handle |-> IF handle >= 0 THEN ClosedHandle(handle) ELSE handle,
     thread |-> FALSE,
     calls |-> (IF handle >= 0 THEN <<"chrondb_close">> ELSE <<>>)
               \o (IF thread THEN <<"graal_tear_down_isolate">> ELSE <<>>)]

\* The worker thread runs init_worker; on Ok it owns the FfiWorkerState.
SessInit(lib, a, b, create, h, err) ==
    /\ sState = "none"
    /\ sIsolates < MaxIsolates
    /\ LET in == [kind |-> "Open", a |-> a, b |-> b, branch |-> "none", ret |-> "null",
                  err |-> err, lib |-> lib, create |-> create, handle |-> h]
           r == InitWorker(in)
       IN  /\ sIn' = in
           /\ sOut' = r.out
           /\ sState' = IF r.live THEN "live" ELSE "none"
           /\ sHandle' = r.handle
           /\ sThread' = r.live
           /\ sIsolates' = sIsolates + r.isolates
    /\ UNCHANGED <<sCloses, sCloseLog>>
    /\ UNCHANGED nonSessVars

\* run_worker_loop(): one command is dispatched to its handler.
SessOp(kind, a, b, branch, ret, err) ==
    /\ sState = "live"
    /\ sCloses = 0
    /\ ret \in (IF kind = "Delete" THEN DeleteRets ELSE StrRets)
    /\ kind # "Put" => b = "ok"
    /\ kind = "LastError" => (a = "ok" /\ branch = "none" /\ ret = "null")
    /\ LET in == [kind |-> kind, a |-> a, b |-> b, branch |-> branch, ret |-> ret,
                  err |-> err, lib |-> "ok", create |-> 0, handle |-> sHandle]
       IN  /\ sIn' = in
           /\ sOut' = Dispatch(in)
    /\ UNCHANGED <<sState, sHandle, sThread, sIsolates, sCloses, sCloseLog>>
    /\ UNCHANGED nonSessVars

\* close() runs on the FfiWorkerState.
SessClose ==
    /\ sState = "live"
    /\ sCloses < MaxCloses
    /\ LET r == Close(sHandle, sThread)
       IN  /\ sHandle' = r.handle
           /\ sThread' = r.thread
           /\ sCloseLog' = sCloseLog \o r.calls
           /\ sIsolates' = IF sThread THEN sIsolates - 1 ELSE sIsolates
    /\ sCloses' = sCloses + 1
    /\ UNCHANGED <<sState, sIn, sOut>>
    /\ UNCHANGED nonSessVars

NextSession ==
    \/ \E lib \in {"ok", "failed"}, a \in Strs, b \in Strs, create \in {0, 1},
          h \in {-1, 0}, err \in ErrRets : SessInit(lib, a, b, create, h, err)
    \/ \E kind \in CmdKinds, a \in Strs, b \in Strs, branch \in Branches,
          ret \in StrRets \cup DeleteRets, err \in ErrRets :
             SessOp(kind, a, b, branch, ret, err)
    \/ SessClose

SpecSession == Init /\ [][NextSession]_vars

\* ---------------------------------------------------------------- provisioning and loading
\* setup.rs (ensure_library_installed, library_exists, download_library) and
\* ffi.rs (get_library, find_library_path, ChronDBLib::load), run by the
\* worker threads at the start of init_worker.

\* The directories the artifact is looked for in.
EnvDir == "CHRONDB_LIB_DIR"
HomeDir == "~/.chrondb/lib"
NoPath == "none"
DirHasLib(dir) == IF dir = EnvDir THEN envDirHasLib ELSE homeHasLib

\* library_exists(): the override directory if it is set, then ~/.chrondb/lib.
LibraryExists == (envLibDir /\ DirHasLib(EnvDir)) \/ DirHasLib(HomeDir)

\* get_library_dir(): CHRONDB_LIB_DIR if it is set, else ~/.chrondb/lib.
GetLibraryDir == IF envLibDir THEN EnvDir ELSE HomeDir

FindLibraryPath_HomeFirst ==
    IF DirHasLib(HomeDir) THEN HomeDir
    ELSE IF envLibDir /\ DirHasLib(EnvDir) THEN EnvDir
    ELSE NoPath
\* find_library_path(): CHRONDB_LIB_DIR if it is set and holds the artifact,
\* then the directory get_library_dir() returns.
FindLibraryPath ==
    IF envLibDir /\ DirHasLib(EnvDir) THEN EnvDir
    ELSE IF DirHasLib(GetLibraryDir) THEN GetLibraryDir
    ELSE NoPath

\* Error texts (the cause appended by format! is left out).
NotFoundText == "ChronDB library not found"
DownloadErrText(fail) ==
    CASE fail = "platform" -> "No pre-built library available for this platform"
      [] fail = "home" -> "Cannot determine home directory"
      [] fail = "fetch" -> "Failed to download library"
      [] fail = "mktemp" -> "Failed to create temp directory"
      [] fail = "unpack" -> "Failed to extract archive"
      [] fail = "readdir" -> "Failed to read temp directory"
      [] fail = "mklibdir" -> "Failed to create lib directory"
      [] fail = "notop" -> "Archive did not contain expected directory structure"
      [] fail = "copy" -> "Failed to copy"
      [] fail = "copy_include" -> "Failed to copy"
      [] fail = "verify" -> "Library was not found after extraction"
\* The steps of download_library that can fail through `?`, in program order.
DownloadSteps == <<"platform", "home", "fetch", "mktemp", "unpack", "readdir",
                   "mklibdir", "notop", "copy", "copy_include">>
StepIndex(step) == CHOOSE i \in 1..Len(DownloadSteps) : DownloadSteps[i] = step
\* The run got past `step` (it failed later or not at all).
Passed(fail, step) == fail = "none" \/ StepIndex(fail) > StepIndex(step)

Verified_Unchecked(present) == TRUE
\* download_library(): `if !lib_dir.join(lib_name).exists() { return Err(..) }`
Verified(present) == present

\* download_library(): dl.fail is the step that fails ("none": no step),
\* dl.hasLib says that the archive's lib/ holds the artifact, dl.removeOk that
\* remove_dir_all succeeds.  Returns the Result and the state of the disk.
DownloadLibrary(dl) ==
    LET tempCreated == Passed(dl.fail, "mktemp")
        copied == Passed(dl.fail, "copy") /\ dl.hasLib
        removeAttempted == dl.fail = "none"
        present == homeHasLib \/ copied
    IN  [result |-> IF dl.fail # "none" THEN DownloadErrText(dl.fail)
                    ELSE IF ~Verified(present) THEN DownloadErrText("verify")
                    ELSE "Ok",
         tempDir |-> IF removeAttempted /\ dl.removeOk THEN FALSE
                     ELSE tempDir \/ tempCreated,
         homeHasLib |-> present,
         tempCreated |-> tempCreated,
         removeAttempted |-> removeAttempted]

\* What get_library() returns: Ok(&lib) or Err(SetupFailed(text)); `stage`
\* names the once-cell the text came from.
LibOk == [tag |-> "Ok", text |-> "", stage |-> "load"]
SetupFailed(text, stage) == [tag |-> "SetupFailed", text |-> text, stage |-> stage]
NoRet == [tag |-> "none", text |-> "", stage |-> "none"]

SetupOnce_Retry(cell) == cell \notin {"running", "Ok"}
\* SETUP_RESULT.get_or_init(..): the closure runs only for an empty cell.
SetupOnce(cell) == cell = "uninit"

LibraryOnce_Retry(cell) == cell \notin {"running", "Ok"}
\* LIBRARY.get_or_init(..): the closure runs only for an empty cell.
LibraryOnce(cell) == cell = "uninit"

\* ensure_library_installed(): the thread finds SETUP_RESULT empty and runs
\* the closure; threads that arrive meanwhile block in get_or_init.
SetupBegin(w) ==
    /\ tpc[w] = "idle"
    /\ SetupOnce(setupResult)
    /\ setupResult' = "running"
    /\ tpc' = [tpc EXCEPT ![w] = "library_exists"]
    /\ UNCHANGED <<envLibDir, envDirHasLib, homeHasLib, skipSetup, tempDir, library, tret,
                   existChecks, downloads, loads, lastDownload, firstAttempt>>
    /\ UNCHANGED nonSetupVars

\* ensure_library_installed(): SETUP_RESULT is filled; Ok goes on to
\* LIBRARY.get_or_init, Err(msg) returns SetupFailed(msg).
SetupReplay(w) ==
    /\ tpc[w] = "idle"
    /\ ~SetupOnce(setupResult)
    /\ setupResult # "running"
    /\ IF setupResult = "Ok"
       THEN /\ tpc' = [tpc EXCEPT ![w] = "load"]
            /\ UNCHANGED tret
       ELSE /\ tpc' = [tpc EXCEPT ![w] = "done"]
            /\ tret' = [tret EXCEPT ![w] = SetupFailed(setupResult, "setup")]
    /\ UNCHANGED <<envLibDir, envDirHasLib, homeHasLib, skipSetup, tempDir, setupResult,
                   library, existChecks, downloads, loads, lastDownload, firstAttempt>>
    /\ UNCHANGED nonSetupVars

\* The closure of ensure_library_installed: `if library_exists() { Ok(()) }`.
SetupLibraryExists(w) ==
    /\ tpc[w] = "library_exists"
    /\ existChecks' = existChecks + 1
    /\ IF LibraryExists
       THEN /\ setupResult' = "Ok"
            /\ firstAttempt' = TRUE
            /\ tpc' = [tpc EXCEPT ![w] = "load"]
       ELSE /\ tpc' = [tpc EXCEPT ![w] = "download"]
            /\ UNCHANGED <<setupResult, firstAttempt>>
    /\ UNCHANGED <<envLibDir, envDirHasLib, homeHasLib, skipSetup, tempDir, library, tret,
                   downloads, loads, lastDownload>>
    /\ UNCHANGED nonSetupVars

\* The closure of ensure_library_installed: `else { download_library() }`;
\* the Result is stored in SETUP_RESULT and returned.
SetupDownload(w, dl) ==
    /\ tpc[w] = "download"
    /\ LET r == DownloadLibrary(dl) IN
         /\ downloads' = downloads + 1
         /\ lastDownload' = [ran |-> TRUE, tempCreated |-> r.tempCreated,
                             removeAttempted |-> r.removeAttempted, result |-> r.result]
         /\ tempDir' = r.tempDir
         /\ homeHasLib' = r.homeHasLib
         /\ setupResult' = r.result
         /\ firstAttempt' = ((envLibDir /\ envDirHasLib) \/ r.homeHasLib)
         /\ IF r.result = "Ok"
            THEN /\ tpc' = [tpc EXCEPT ![w] = "load"]
                 /\ UNCHANGED tret
            ELSE /\ tpc' = [tpc EXCEPT ![w] = "done"]
                 /\ tret' = [tret EXCEPT ![w] = SetupFailed(r.result, "setup")]
    /\ UNCHANGED <<envLibDir, envDirHasLib, skipSetup, library, existChecks, loads>>
    /\ UNCHANGED nonSetupVars

\* get_library(): the thread finds LIBRARY empty and runs ChronDBLib::load().
LoadBegin(w) ==
    /\ tpc[w] = "load"
    /\ LibraryOnce(library)
    /\ library' = "running"
    /\ tpc' = [tpc EXCEPT ![w] = "loading"]
    /\ UNCHANGED <<envLibDir, envDirHasLib, homeHasLib, skipSetup, tempDir, setupResult, tret,
                   existChecks, downloads, loads, lastDownload, firstAttempt>>
    /\ UNCHANGED nonSetupVars

\* ChronDBLib::load(): find_library_path(), Library::new, the symbol look-ups;
\* the Result is stored in LIBRARY and returned.
LoadRun(w, fail) ==
    /\ tpc[w] = "loading"
    /\ loads' = loads + 1
    /\ LET r == IF FindLibraryPath = NoPath THEN NotFoundText
                ELSE IF fail = "dlopen" THEN "Failed to load library"
                ELSE IF fail = "symbol" THEN "Symbol not found"
                ELSE "Ok"
       IN  /\ library' = r
           /\ tret' = [tret EXCEPT ![w] = IF r = "Ok" THEN LibOk ELSE SetupFailed(r, "load")]
    /\ tpc' = [tpc EXCEPT ![w] = "done"]
    /\ UNCHANGED <<envLibDir, envDirHasLib, homeHasLib, skipSetup, tempDir, setupResult,
                   existChecks, downloads, lastDownload, firstAttempt>>
    /\ UNCHANGED nonSetupVars

\* get_library(): LIBRARY is filled; the cached Result is returned.
LoadReplay(w) ==
    /\ tpc[w] = "load"
    /\ ~LibraryOnce(library)
    /\ library # "running"
    /\ tret' = [tret EXCEPT ![w] = IF library = "Ok" THEN LibOk
                                   ELSE SetupFailed(library, "load")]
    /\ tpc' = [tpc EXCEPT ![w] = "done"]
    /\ UNCHANGED <<envLibDir, envDirHasLib, homeHasLib, skipSetup, tempDir, setupResult,
                   library, existChecks, downloads, loads, lastDownload, firstAttempt>>
    /\ UNCHANGED nonSetupVars

DownloadInputs ==
    [fail : {"none", "platform", "home", "fetch", "mktemp", "unpack", "readdir",
             "mklibdir", "notop", "copy", "copy_include"},
     hasLib : BOOLEAN, removeOk : BOOLEAN]

\* The process starts in any environment: the override directory set or not,
\* the artifact present or not in either directory.
InitSetup ==
    /\ fsExists = FALSE
    /\ libState = "uninit"
    /\ registry = [k \in PathStrs |-> None]
    /\ pc = [c \in Callers |-> "idle"]
    /\ cpath = [c \in Callers |-> "abs"]
    /\ ckey = [c \in Callers |-> "abs"]
    /\ cw = [c \in Callers |-> None]
    /\ shared = [c \in Callers |-> None]
    /\ nops = [c \in Callers |-> 0]
    /\ replyChan = [c \in Callers |-> <<>>]
    /\ lastReply = [c \in Callers |-> NoReply]
    /\ opKind = [c \in Callers |-> "none"]
    /\ openErr = [c \in Callers |-> "none"]
    /\ lock = None
    /\ wpc = [w \in Workers |-> "unspawned"]
    /\ wpath = [w \in Workers |-> "abs"]
    /\ wkey = [w \in Workers |-> "abs"]
    /\ strong = [w \in Workers |-> 0]
    /\ queue = [w \in Workers |-> <<>>]
    /\ cur = [w \in Workers |-> NoCmd]
    /\ initMsg = [w \in Workers |-> "none"]
    /\ whandle = [w \in Workers |-> -1]
    /\ isolate = [w \in Workers |-> "none"]
    /\ wthread = [w \in Workers |-> FALSE]
    /\ arrived = [w \in Workers |-> <<>>]
    /\ processed = [w \in Workers |-> <<>>]
    /\ seenAtStart = [c \in Callers |-> {}]
    /\ dropDone = [w \in Workers |-> FALSE]
    /\ sharedDrop = [w \in Workers |-> FALSE]
    /\ sState = "none" /\ sHandle = -1 /\ sThread = FALSE /\ sIsolates = 0
    /\ sIn = NoIn /\ sOut = NoOut /\ sCloses = 0 /\ sCloseLog = <<>>
    /\ envLibDir \in BOOLEAN
    /\ envDirHasLib \in BOOLEAN
    /\ envDirHasLib => envLibDir
    /\ homeHasLib \in BOOLEAN
    /\ skipSetup \in BOOLEAN
    /\ SetupStart
    /\ StoreStart

NextSetup ==
    \/ \E w \in Workers : SetupBegin(w)
    \/ \E w \in Workers : SetupReplay(w)
    \/ \E w \in Workers : SetupLibraryExists(w)
    \/ \E w \in Workers, dl \in DownloadInputs : SetupDownload(w, dl)
    \/ \E w \in Workers : LoadBegin(w)
    \/ \E w \in Workers, fail \in {"none", "dlopen", "symbol"} : LoadRun(w, fail)
    \/ \E w \in Workers : LoadReplay(w)

SpecSetup == InitSetup /\ [][NextSetup]_vars

\* ---------------------------------------------------------------- sessions on one storage

ToJsonString_Null(d) == <<"json", "null">>
\* put(): serde_json::to_string(doc)
ToJsonString(d) == <<"json", d>>
\* parse_string_result(): serde_json::from_str(&s)
FromJsonStr(t) == IF t[1] = "json" THEN Res("Ok", t[2]) ELSE Res("JsonError", "")

\* The native engine, as the spec describes it: chrondb_put stores the text
\* under the id and returns the stored document.
EnginePut(d, id, text) == [disk |-> [d EXCEPT ![id] = text], ret |-> text]
\* chrondb_get returns the stored document, or null when there is none.
EngineGet(d, id) == d[id]
\* chrondb_delete removes the document: 0, or 1 when there is none.
EngineDelete(d, id) ==
    [disk |-> [d EXCEPT ![id] = NoDoc], ret |-> IF d[id] = NoDoc THEN "1" ELSE "0"]
\* chrondb_open opens the storage that exists under the paths; it fails
\* while another session holds the storage open.
EngineOpen(held) == IF held THEN -1 ELSE 0
\* chrondb_close releases the storage; its documents stay on disk.
EngineClose(held, calls) ==
    held /\ ~(\E i \in 1..Len(calls) : calls[i] = "chrondb_close")

\* The pointer class the handlers see for what the engine returned.
PtrClass(text) == IF text = NoDoc THEN "null" ELSE "json"

\* A command with valid strings on the default branch and the native return.
StoreIn(kind, ret) ==
    [kind |-> kind, a |-> "ok", b |-> "ok", branch |-> "none", ret |-> ret,
     err |-> "null", lib |-> "ok", create |-> 0, handle |-> stHandle]

\* The Result a handler sends back: its tag as Dispatch computes it, with
\* the parsed text for an Ok of put and get.
StoreResult(kind, ret, text) ==
    LET r == Dispatch(StoreIn(kind, ret)).res
    IN  IF r.tag = "Ok" /\ kind # "Delete" THEN FromJsonStr(text) ELSE r

ExitCalls_NoClose(handle, thread) == <<>>
\* The worker thread closure: run_worker_loop returned, then state.close().
ExitCalls(handle, thread) == Close(handle, thread).calls

\* ChronDB::open on the path pair: a registry hit shares the worker; a miss
\* spawns a worker whose init_worker calls chrondb_open, and open returns
\* what the worker reports.
StoreOpen ==
    /\ stPc = "idle"
    /\ IF stHandles > 0
       THEN /\ stHandles < NumCallers
            /\ stHandles' = stHandles + 1
            /\ stRes' = [op |-> "Share", id |-> "", doc |-> NoDoc, res |-> Res("Ok", "")]
            /\ UNCHANGED <<diskHeld, stWorker, stHandle, stSessions>>
       ELSE /\ stSessions < MaxSessions
            /\ LET h == EngineOpen(diskHeld)
                   in == [kind |-> "Open", a |-> "ok", b |-> "ok", branch |-> "none",
                          ret |-> "null", err |-> IF h < 0 THEN "engine text" ELSE "null",
                          lib |-> "ok", create |-> 0, handle |-> h]
                   r == InitWorker(in)
               IN  /\ stRes' = [op |-> "Open", id |-> "", doc |-> NoDoc, res |-> r.out.res]
                   /\ stHandle' = r.handle
                   /\ stWorker' = IF r.live THEN "recv" ELSE "none"
                   /\ diskHeld' = (diskHeld \/ r.live)
                   /\ stHandles' = IF InitOk(r.out.res.tag) THEN 1 ELSE 0
                   /\ stSessions' = stSessions + 1
    /\ stPrev' = stRes
    /\ UNCHANGED <<disk, stPc, stModel>>
    /\ UNCHANGED nonStoreVars

\* put(id, doc, None): the document is serialized, the worker runs handle_put
\* and the reply is returned.
StorePut(id, d) ==
    /\ stPc = "idle" /\ stHandles > 0
    /\ LET e == EnginePut(disk, id, ToJsonString(d))
           res == StoreResult("Put", PtrClass(e.ret), e.ret)
       IN  /\ disk' = e.disk
           /\ stRes' = [op |-> "Put", id |-> id, doc |-> d, res |-> res]
           /\ stModel' = IF res.tag = "Ok"
                         THEN [stModel EXCEPT ![id] = [doc |-> d, sess |-> stSessions]]
                         ELSE stModel
    /\ stPrev' = stRes
    /\ UNCHANGED <<diskHeld, stHandles, stPc, stWorker, stHandle, stSessions>>
    /\ UNCHANGED nonStoreVars

\* get(id, None): the worker runs handle_get and the reply is returned.
StoreGet(id) ==
    /\ stPc = "idle" /\ stHandles > 0
    /\ LET t == EngineGet(disk, id)
       IN  stRes' = [op |-> "Get", id |-> id, doc |-> NoDoc,
                     res |-> StoreResult("Get", PtrClass(t), t)]
    /\ stPrev' = stRes
    /\ UNCHANGED <<disk, diskHeld, stHandles, stPc, stWorker, stHandle, stSessions, stModel>>
    /\ UNCHANGED nonStoreVars

\* delete(id, None): the worker runs handle_delete and the reply is returned.
StoreDelete(id) ==
    /\ stPc = "idle" /\ stHandles > 0
    /\ LET e == EngineDelete(disk, id)
           res == StoreResult("Delete", e.ret, NoDoc)
       IN  /\ disk' = e.disk
           /\ stRes' = [op |-> "Delete", id |-> id, doc |-> NoDoc, res |-> res]
           /\ stModel' = IF res.tag = "Ok" THEN [stModel EXCEPT ![id] = NoEntry] ELSE stModel
    /\ stPrev' = stRes
    /\ UNCHANGED <<diskHeld, stHandles, stPc, stWorker, stHandle, stSessions>>
    /\ UNCHANGED nonStoreVars

\* A ChronDB handle is dropped; the last one runs SharedWorker::drop, which
\* removes the registry entry and sends Shutdown.
StoreDrop ==
    /\ stPc = "idle" /\ stHandles > 0
    /\ stHandles' = stHandles - 1
    /\ IF LastRef(stHandles)
       THEN /\ stPc' = "drop_join"
            /\ stWorker' = "close"
       ELSE UNCHANGED <<stPc, stWorker>>
    /\ stRes' = [op |-> "Drop", id |-> "", doc |-> NoDoc, res |-> Res("Ok", "")]
    /\ stPrev' = stRes
    /\ UNCHANGED <<disk, diskHeld, stHandle, stSessions, stModel>>
    /\ UNCHANGED nonStoreVars

\* The worker thread got Shutdown: run_worker_loop returns, close() runs and
\* the thread ends.
StoreWorkerExit ==
    /\ stWorker = "close"
    /\ diskHeld' = EngineClose(diskHeld, ExitCalls(stHandle, TRUE))
    /\ stHandle' = Close(stHandle, TRUE).handle
    /\ stWorker' = "ended"
    /\ UNCHANGED <<disk, stHandles, stPc, stSessions, stRes, stPrev, stModel>>
    /\ UNCHANGED nonStoreVars

\* SharedWorker::drop: worker.join() returns.
StoreJoin ==
    /\ stPc = "drop_join"
    /\ JoinReady(stWorker)
    /\ stPc' = "idle"
    /\ stWorker' = "none"
    /\ UNCHANGED <<disk, diskHeld, stHandles, stHandle, stSessions, stRes, stPrev, stModel>>
    /\ UNCHANGED nonStoreVars

NextStore ==
    \/ StoreOpen
    \/ \E id \in Ids, d \in Docs : StorePut(id, d)
    \/ \E id \in Ids : StoreGet(id)
    \/ \E id \in Ids : StoreDelete(id)
    \/ StoreDrop
    \/ StoreWorkerExit
    \/ StoreJoin

SpecStore == Init /\ [][NextStore]_vars

\* ---------------------------------------------------------------- properties

InSeq(x, q) == \E i \in 1..Len(q) : q[i] = x
Count(x, q) == Cardinality({i \in 1..Len(q) : q[i] = x})
ShutdownId == <<0, 0>>
DropPcs == {"drop_remove", "drop_send", "drop_join"}
\* Some caller owns a handle, returned by open, on worker w.
Held(w) == \E d \in Callers : shared[d] = w
\* SharedWorker::drop has begun for worker w (or has finished).
Closing(w) == dropDone[w] \/ \E d \in Callers : pc[d] \in DropPcs /\ cw[d] = w

\* C1: at most one live SharedWorker (strong count > 0) exists for a registry
\* key at any time, under every interleaving of opens and drops.
C1_OneLiveWorkerPerIdentity ==
    \A w1, w2 \in Workers :
        (Live(w1) /\ Live(w2) /\ wkey[w1] = wkey[w2]) => w1 = w2

\* C2: at most one native session is open against a given
\* (data_path, index_path) pair at any time.
C2_OneSessionPerPair ==
    \A w1, w2 \in Workers :
        (SessionOpen(w1) /\ SessionOpen(w2) /\ wpath[w1] = wpath[w2]) => w1 = w2

\* C3: an open that began while a handle of worker w for the same canonical
\* pair was alive, and w's handle is alive still, returns a handle on w: it
\* spawns no thread and makes no native open.
C3_LaterOpenReusesWorker ==
    [][\A c \in Callers :
          LET S == {w \in seenAtStart[c] : Held(w) /\ Identity(w) = Canon(cpath[c])}
          IN  (pc[c] = "lookup" /\ pc'[c] # "lookup" /\ S # {})
                 => (pc'[c] = "ready" /\ shared'[c] \in S /\ wpc' = wpc)]_vars

\* C4: no two native calls that target the same path pair execute at the
\* same time.
C4_NoConcurrentNativeCalls ==
    \A w1, w2 \in Workers :
        (InNative(w1) /\ InNative(w2) /\ wpath[w1] = wpath[w2]) => w1 = w2

\* C5: every operation of every caller is completed exactly once: the worker
\* dispatches each command once, and the caller receives one reply, which is
\* the reply to its own command.
C5_ExactlyOnce ==
    /\ \A w \in Workers : \A i \in 1..Len(processed[w]) :
          /\ Count(processed[w][i], processed[w]) = 1
          /\ InSeq(processed[w][i], arrived[w])
    /\ \A c \in Callers :
          /\ Len(replyChan[c]) <= 1
          /\ replyChan[c] # <<>> =>
                (pc[c] = "wait_reply" /\ replyChan[c][1].caller = c /\ replyChan[c][1].n = nops[c])
          /\ lastReply[c] # NoReply =>
                /\ lastReply[c].caller = c
                /\ lastReply[c].n = nops[c]
                /\ replyChan[c] = <<>>
                /\ Count(<<c, nops[c]>>, processed[shared[c]]) = 1
                /\ \A w \in Workers \ {shared[c]} : ~InSeq(<<c, nops[c]>>, processed[w])

\* Two callers have had their commands dispatched by one worker and one of
\* them holds its reply.
C5_Witness ==
    \E c \in Callers : \E d \in Callers \ {c} :
        /\ pc[c] = "ready" /\ lastReply[c] # NoReply
        /\ shared[d] = shared[c]
        /\ InSeq(<<d, nops[d]>>, processed[shared[c]])

\* C6: the worker dispatches commands in channel arrival order: the dispatch
\* log is always a prefix of the arrival log, so each caller's commands run in
\* the order it sent them.
C6_Fifo ==
    \A w \in Workers :
        /\ Len(processed[w]) <= Len(arrived[w])
        /\ \A i \in 1..Len(processed[w]) : processed[w][i] = arrived[w][i]
        /\ \A i, j \in 1..Len(processed[w]) :
              (i < j /\ processed[w][i][1] = processed[w][j][1])
                 => processed[w][i][2] < processed[w][j][2]

\* A worker has dispatched two commands and a third message is behind them.
C6_Witness ==
    \E w \in Workers : Len(processed[w]) = 2 /\ processed[w][1] # processed[w][2]

\* C7: while a handle of a worker is alive the worker is not shut down; the
\* drop of a handle that is not the last one sends no Shutdown, leaves the
\* registry and the session alone, and a command in flight is still answered.
C7_NonLastDropKeepsWorker ==
    [][/\ \A w \in Workers :
             strong'[w] > 0 =>
                /\ wpc'[w] \in {"recv", "op"}
                /\ whandle'[w] >= 0 /\ wthread'[w] /\ isolate'[w] = "live"
                /\ ~InSeq(ShutdownId, arrived'[w])
                /\ ~InSeq(ShutdownCmd, queue'[w])
       /\ \A c \in Callers :
             (pc[c] = "ready" /\ pc'[c] = "idle") =>
                /\ registry' = registry
                /\ queue' = queue /\ arrived' = arrived
                /\ wpc' = wpc /\ whandle' = whandle /\ isolate' = isolate
       /\ \A d \in Callers :
             pc'[d] = "wait_reply" =>
                \/ replyChan'[d] # <<>>
                \/ cur'[shared'[d]].caller = d /\ cur'[shared'[d]].n = nops'[d]
                \/ \E i \in 1..Len(queue'[shared'[d]]) :
                      /\ queue'[shared'[d]][i].caller = d
                      /\ queue'[shared'[d]][i].n = nops'[d]]_vars

\* One handle of a worker was dropped while another caller's command on the
\* same worker is in flight.
C7_Witness ==
    \E d \in Callers :
        /\ pc[d] = "wait_reply"
        /\ sharedDrop[shared[d]]
        /\ strong[shared[d]] = 1

\* C8: the drop of the last handle removes the registry entry, then sends
\* Shutdown, then joins; when it returns the worker has left its loop, close()
\* has run and the worker thread has ended.
C8_LastDropOrder ==
    /\ \A c \in Callers :
          /\ pc[c] = "drop_remove" =>
                /\ ~InSeq(ShutdownId, arrived[cw[c]])
                /\ wpc[cw[c]] \in {"recv", "op"}
          /\ pc[c] = "drop_send" =>
                /\ \A k \in PathStrs : registry[k] # cw[c]
                /\ ~InSeq(ShutdownId, arrived[cw[c]])
                /\ wpc[cw[c]] \in {"recv", "op"}
          /\ pc[c] = "drop_join" =>
                /\ \A k \in PathStrs : registry[k] # cw[c]
                /\ Count(ShutdownId, arrived[cw[c]]) = 1
                /\ ~dropDone[cw[c]]
    /\ \A w \in Workers :
          dropDone[w] =>
             /\ wpc[w] = "ended"
             /\ whandle[w] = -1 /\ ~wthread[w] /\ isolate[w] = "torn"

\* The drop of a worker's last handle has returned.
C8_Witness == \E w \in Workers : dropDone[w] /\ \E c \in Callers : pc[c] = "idle"

\* C9: no handle returned by open is backed by a worker whose
\* SharedWorker::drop has begun.
C9_NoClosingWorkerHandedOut ==
    \A c \in Callers : shared[c] # None => (strong[shared[c]] > 0 /\ ~Closing(shared[c]))

\* An open that arrived during the release of worker cw[c] is creating a
\* fresh worker for the same key.
C9_Witness ==
    \E c \in Callers : \E d \in Callers \ {c} :
        /\ pc[c] \in DropPcs
        /\ pc[d] \in {"wait_init", "register"}
        /\ cw[d] > cw[c]
        /\ wkey[cw[d]] = wkey[cw[c]]

\* C10: when the worker's start-up fails, open returns that error to the
\* caller that triggered the creation, the registry is left without a (live)
\* entry for the identity, and the worker thread has ended without entering
\* the command loop.
C10_FailedStartup ==
    [][\A c \in Callers :
          (pc[c] = "wait_init" /\ pc'[c] = "idle") =>
             /\ openErr'[c] = initMsg[cw[c]]
             /\ openErr'[c] \in {"SetupFailed", "IsolateCreationFailed", "OpenFailed"}
             /\ wpc[cw[c]] = "ended"
             /\ processed[cw[c]] = <<>> /\ whandle[cw[c]] = -1
             /\ \A k \in PathStrs :
                   Canon(k) = Canon(cpath[c]) =>
                      (registry'[k] = None \/ ~Live(registry'[k]))]_vars

\* C11: every worker that is registered or referenced by a returned handle
\* has completed its native open successfully (it holds a handle >= 0 and is
\* in its command loop), and a command is queued at or dispatched to a worker
\* only after its open has succeeded.
C11_OnlyOpenedWorkers ==
    \A w \in Workers :
        (\/ \E k \in PathStrs : registry[k] = w
         \/ Held(w)
         \/ queue[w] # <<>>
         \/ cur[w] # NoCmd)
        => (whandle[w] >= 0 /\ wthread[w] /\ wpc[w] \in {"recv", "op"})

\* One open failed in the native open while another worker is registered,
\* referenced by a handle and dispatching a command.
C11_Witness ==
    \E w \in Workers : \E v \in Workers \ {w} : \E c \in Callers :
        /\ wpc[v] = "ended" /\ whandle[v] = -1 /\ ~dropDone[v] /\ isolate[v] = "torn"
        /\ shared[c] = w /\ registry[wkey[w]] = w
        /\ wpc[w] = "op"

\* C12: once a worker thread has terminated other than through Shutdown, it
\* dispatches nothing any more (it is not restarted), a caller waiting on one
\* of its handles for a reply that was never sent is released instead of
\* blocking, and every operation that did not get its reply from the worker
\* (one waiting at that moment or one issued later) has returned
\* OperationFailed("worker thread died").
C12_DeadWorkerFailsFast ==
    \A c \in Callers :
        LET w == shared[c] IN
        (w # None /\ wpc[w] = "died") =>
            /\ queue[w] = <<>> /\ cur[w] = NoCmd
            /\ pc[c] \in {"ready", "wait_reply"}
            /\ pc[c] = "wait_reply" => (replyChan[c] # <<>> \/ ~ReplySenderAlive(c))
            /\ (pc[c] = "ready" /\ lastReply[c] # NoReply
                  /\ ~InSeq(<<c, lastReply[c].n>>, processed[w])) =>
                  /\ lastReply[c].n = nops[c]
                  /\ opKind[c] = "op" => lastReply[c].res = WorkerDied

\* Two handles share a worker that died: one caller was waiting for a reply
\* and got the error, the other issued its operation afterwards and got it
\* too.
C12_Witness ==
    \E c \in Callers : \E d \in Callers \ {c} :
        /\ shared[c] # None /\ shared[d] = shared[c]
        /\ wpc[shared[c]] = "died"
        /\ pc[c] = "ready" /\ pc[d] = "ready"
        /\ opKind[c] = "op" /\ opKind[d] = "op"
        /\ lastReply[c].res = WorkerDied /\ lastReply[d].res = WorkerDied
        /\ arrived[shared[c]] = <<<<c, 1>>>>

\* ---------------------------------------------------------------- FfiWorkerState properties
ArgsOk(in) == CStringNew(in.a) /\ CStringNew(in.b) /\ OptionalCString(in.branch)
\* The text an OperationFailed built by last_error_or carries.
ErrTextOr(in, default) == IF in.err = "null" THEN default ELSE in.err

\* C13: close() is idempotent: every run of close() leaves handle = -1 and
\* thread = null, a run after the first one changes nothing and calls
\* nothing, and over the session chrondb_close and graal_tear_down_isolate
\* are each called at most once.
C13_CloseIdempotent ==
    [][sCloses' = sCloses + 1 =>
          /\ sHandle' = -1 /\ ~sThread'
          /\ Count("chrondb_close", sCloseLog') <= 1
          /\ Count("graal_tear_down_isolate", sCloseLog') <= 1
          /\ sCloses >= 1 =>
                (sHandle' = sHandle /\ sThread' = sThread /\ sCloseLog' = sCloseLog)]_vars

\* close() has run twice on a session that was open.
C13_Witness ==
    /\ sCloses = 2
    /\ sCloseLog = <<"chrondb_close", "graal_tear_down_isolate">>

\* C14: when chrondb_open returns a negative handle, init_worker fetches the
\* last-error text (empty if there is none), frees it, tears the isolate
\* down and returns OpenFailed with that text; no FfiWorkerState and no
\* isolate is kept.
C14_NegativeHandle ==
    [][(/\ sState = "none" /\ sIn'.kind = "Open"
        /\ sIn'.lib = "ok" /\ sIn'.create = 0
        /\ CStringNew(sIn'.a) /\ CStringNew(sIn'.b)
        /\ sIn'.handle < 0) =>
          /\ sOut'.res = Res("OpenFailed", ErrTextOr(sIn', ""))
          /\ sOut'.calls =
                <<"graal_create_isolate", "chrondb_open", "chrondb_last_error">>
                \o (IF sIn'.err = "null" THEN <<>> ELSE <<"chrondb_free_string">>)
                \o <<"graal_tear_down_isolate">>
          /\ sOut'.freed = (IF sIn'.err = "null" THEN <<>> ELSE <<"err">>)
          /\ sState' = "none" /\ sHandle' = -1 /\ ~sThread'
          /\ sIsolates' = sIsolates]_vars

\* A native open returned a negative handle and left an error text.
C14_Witness ==
    /\ sIn.kind = "Open" /\ sIn.handle = -1 /\ sIn.err = "engine text"
    /\ sOut.res = Res("OpenFailed", "engine text")
    /\ sState = "none"

\* C15: delete maps the native status 0 to Ok(()), 1 to NotFound and any
\* other value to OperationFailed carrying the last-error text, or
\* "delete failed" when there is none.
C15_DeleteStatus ==
    (sIn.kind = "Delete" /\ ArgsOk(sIn)) =>
        /\ sIn.ret = "0" => sOut.res = Res("Ok", "")
        /\ sIn.ret = "1" => sOut.res = Res("NotFound", "")
        /\ sIn.ret = "other" =>
              sOut.res = Res("OperationFailed", ErrTextOr(sIn, "delete failed"))

\* chrondb_delete returned an unknown status and no last-error text exists.
C15_Witness ==
    /\ sIn.kind = "Delete" /\ sIn.ret = "other" /\ sIn.err = "null"
    /\ sOut.res = Res("OperationFailed", "delete failed")

\* C16: list_by_prefix, list_by_table and history return Ok(empty array) when
\* the native call returns a null pointer, and make no other native call
\* (chrondb_last_error is not consulted).
C16_ListNullIsEmpty ==
    (sIn.kind \in {"ListByPrefix", "ListByTable", "History"}
        /\ ArgsOk(sIn) /\ sIn.ret = "null") =>
        /\ sOut.res = Res("OkEmpty", "")
        /\ sOut.calls = <<ListNative(sIn.kind)>>

\* history got a null pointer while the engine holds a last-error text.
C16_Witness ==
    /\ sIn.kind = "History" /\ sIn.ret = "null" /\ sIn.err = "engine text"
    /\ sOut.res.tag = "OkEmpty"

\* C17: query maps a null pointer to OperationFailed, carrying the
\* last-error text when there is one ("query failed" otherwise), and never
\* to an empty collection.
C17_QueryNullIsError ==
    (sIn.kind = "Query" /\ ArgsOk(sIn) /\ sIn.ret = "null") =>
        /\ sOut.res = Res("OperationFailed", ErrTextOr(sIn, "query failed"))
        /\ sOut.res.tag # "OkEmpty"

\* chrondb_query returned null with a last-error text.
C17_Witness ==
    /\ sIn.kind = "Query" /\ sIn.ret = "null" /\ sIn.err = "engine text"
    /\ sOut.res = Res("OperationFailed", "engine text")

\* C18: a call one of whose string arguments (id, document, prefix, table,
\* query, branch, or a path of open) has an embedded NUL is rejected with
\* OperationFailed and makes no native call.  (An open whose library set-up
\* or isolate creation failed never reaches its path arguments.)
C18_NulRejectedBeforeNative ==
    (/\ sIn.kind # "none" /\ ~ArgsOk(sIn)
     /\ sIn.kind = "Open" => (sIn.lib = "ok" /\ sIn.create = 0)) =>
        /\ sOut.res.tag = "OperationFailed"
        /\ sOut.calls = <<>>

\* C19: every non-null string pointer the native side returned during a call
\* has been passed to chrondb_free_string exactly once when the call returns
\* (before the reply is sent); nothing else is freed.
C19_FreedExactlyOnce ==
    /\ \A p \in {"res", "err"} :
          Count(p, sOut.freed) = (IF p \in sOut.alloc THEN 1 ELSE 0)
    /\ Count("chrondb_free_string", sOut.calls) = Len(sOut.freed)

\* A put got a non-null result that is not JSON.
C19_Witness ==
    /\ sIn.kind = "Put" /\ sIn.ret = "badjson"
    /\ sOut.res.tag = "JsonError" /\ sOut.alloc = {"res"} /\ sOut.freed = <<"res">>

\* The engine reports that the document does not exist.
Absent(in) ==
    \/ in.kind = "Get" /\ in.ret = "null" /\ in.err = "null"
    \/ in.kind = "Delete" /\ in.ret = "1"
\* The native call failed inside the engine and left a last-error text.
EngineFailed(in) ==
    /\ in.err # "null"
    /\ \/ in.kind \in {"Put", "Get", "Query"} /\ in.ret = "null"
       \/ in.kind = "Delete" /\ in.ret = "other"

\* C20: NotFound is returned only by get and delete and only when the engine
\* reports absence; every other native failure, a get that fails inside the
\* engine with a last-error text included, is OperationFailed with that text.
C20_NotFoundOnlyForAbsence ==
    /\ sOut.res.tag = "NotFound" => Absent(sIn)
    /\ (ArgsOk(sIn) /\ EngineFailed(sIn)) => sOut.res = Res("OperationFailed", sIn.err)

\* Threads whose get_library() call has returned.
Returned == {w \in Workers : tpc[w] = "done"}

\* C21: whenever ensure_library_installed succeeded, the path search of the
\* load that follows locates the artifact: the load does not end with
\* "library not found", in particular not when CHRONDB_LIB_DIR names a
\* directory without the artifact and ~/.chrondb/lib holds it.
C21_InstalledIsFound ==
    (setupResult = "Ok" /\ library \notin {"uninit", "running"}) => library # NotFoundText

\* C22: the existence check and the download each run at most once per
\* process, and every call that fails in provisioning returns SetupFailed with
\* the text of that one attempt; after a failure nothing is attempted again.
C22_ProvisionedOnce ==
    /\ existChecks <= 1
    /\ downloads <= 1
    /\ \A w \in Returned :
          /\ tret[w].stage = "setup" => tret[w] = SetupFailed(setupResult, "setup")
          /\ tret[w].stage = "load" => setupResult = "Ok"
    /\ (lastDownload.ran /\ setupResult # "running") => setupResult = lastDownload.result

\* Two calls returned the failure of the one download.
C22_Witness ==
    /\ downloads = 1 /\ existChecks = 1
    /\ \E w1, w2 \in Returned :
          /\ w1 # w2
          /\ tret[w1] = SetupFailed("Failed to download library", "setup")
          /\ tret[w2] = tret[w1]

\* C23: the native library is loaded at most once per process; once the load
\* has succeeded every call succeeds, once it has failed every call returns
\* SetupFailed with the text of that one load.
C23_LoadedOnce ==
    /\ loads <= 1
    /\ \A w \in Returned :
          tret[w].stage = "load" =>
             tret[w] = (IF library = "Ok" THEN LibOk ELSE SetupFailed(library, "load"))

\* Two workers got the failure of the one load in which a symbol was missing.
C23_Witness ==
    /\ loads = 1
    /\ \E w1, w2 \in Returned :
          /\ w1 # w2
          /\ tret[w1] = SetupFailed("Symbol not found", "load")
          /\ tret[w2] = tret[w1]

\* C24: once download_library has created its temporary extraction directory
\* it attempts to delete it on every way out, success or failure.
C24_TempDirAlwaysRemoved ==
    lastDownload.tempCreated => lastDownload.removeAttempted

\* C25: ensure_library_installed is Ok only if the artifact existed in the
\* override directory or in the install directory when the first attempt
\* finished; a download that fails at any step is the cached outcome and is
\* returned as SetupFailed with its text.
C25_OkOnlyIfInstalled ==
    /\ setupResult = "Ok" => firstAttempt = TRUE
    /\ (lastDownload.ran /\ lastDownload.result # "Ok") =>
          /\ setupResult = lastDownload.result
          /\ \A w \in Returned : tret[w] = SetupFailed(lastDownload.result, "setup")

\* The archive unpacked and copied without an error but did not hold the
\* artifact: the verification failed and the caller got SetupFailed.
C25_Witness ==
    /\ lastDownload.result = DownloadErrText("verify")
    /\ firstAttempt = FALSE
    /\ \E w \in Returned : tret[w] = SetupFailed(DownloadErrText("verify"), "setup")

\* C26: when the override that skips auto-provisioning is set, no download is
\* attempted and provisioning does not fail; the absence of the artifact
\* surfaces when the library is loaded.
C26_SkipProvisioning ==
    skipSetup =>
       /\ downloads = 0
       /\ setupResult \in {"uninit", "running", "Ok"}
       /\ \A w \in Returned : tret[w].tag = "SetupFailed" => tret[w].stage = "load"

\* C28: ChronDB::open fails only with SetupFailed, IsolateCreationFailed or
\* OpenFailed: no other error kind and no unwrapped I/O error is returned by
\* an open, whatever the library, the registry and the paths are.
C28_OpenErrors ==
    \A c \in Callers : openErr[c] \in {"none", "SetupFailed", "IsolateCreationFailed", "OpenFailed"}

\* One open failed because the thread could not be spawned, another because
\* the worker's start-up reported a native open failure.
C28_Witness ==
    \E c, d \in Callers :
        /\ pc[c] = "idle" /\ openErr[c] = "IsolateCreationFailed"
        /\ pc[d] = "idle" /\ openErr[d] = "OpenFailed"

\* C27: the registry lock is held only for a map lookup, insert or remove:
\* the thread that holds it is at one of the three map accesses, never
\* waiting for a worker's start-up signal (while the native open runs),
\* sending a command, waiting for a reply or joining a worker thread.
C27_LockOnlyForMapAccess ==
    \A c \in Callers :
        lock = c =>
           /\ pc[c] \in LockPcs
           /\ pc[c] \notin {"wait_init", "wait_reply", "drop_send", "drop_join"}

\* A thread holds the lock for the removal of its worker's entry; another
\* thread has released the lock after its lookup and waits for the start-up
\* signal of the worker it spawned, whose native open is running.
C27_Witness ==
    \E c, d \in Callers :
        /\ lock = c /\ pc[c] = "drop_remove"
        /\ pc[d] = "wait_init" /\ wpc[cw[d]] = "open"

\* The Result of get(id) when the storage holds entry e for the id.
Expected(e) == IF e.doc = NoDoc THEN Res("NotFound", "") ELSE Res("Ok", e.doc)

C31_SearchPriority ==
    /\ (envLibDir /\ envDirHasLib) =>
          /\ FindLibraryPath = EnvDir
          /\ library # NotFoundText
    /\ (~(envLibDir /\ envDirHasLib) /\ ~homeHasLib) => FindLibraryPath = NoPath

\* Both directories hold the artifact and the load has run and succeeded.
C31_Witness ==
    /\ envLibDir /\ envDirHasLib /\ homeHasLib
    /\ loads = 1 /\ library = "Ok"
    /\ \E w \in Workers : tpc[w] = "done" /\ tret[w] = LibOk

\* C32: the registry key open computes for a pair of path strings is the same
\* at every call: an open in progress on the strings a live handle's worker
\* was opened with has computed the key under which that worker was created.
C32_StableKey ==
    \A c \in Callers : \A w \in Workers :
        (pc[c] \in {"lookup", "wait_init", "register"} /\ Held(w) /\ wpath[w] = cpath[c])
           => ckey[c] = wkey[w]

\* C33: the release of a worker's last handle removes from the registry only
\* that worker's own entry: an entry that disappears belonged to the worker
\* whose SharedWorker::drop removes it, so a live worker that is registered
\* stays registered until its own last handle is dropped.
C33_DropRemovesOwnEntry ==
    [][\A k \in PathStrs :
          (registry[k] # None /\ registry'[k] = None) =>
             \E c \in Callers : pc[c] = "drop_remove" /\ pc'[c] = "drop_send"
                                /\ cw[c] = registry[k]]_vars

\* C34: every isolate created during an open that ends in an error has been
\* torn down when the open returns: after a failed open, whatever its cause,
\* no isolate is left on the native side.
C34_FailedOpenLeavesNoIsolate ==
    (sIn.kind = "Open" /\ sOut.res.tag # "Ok") => sIsolates = 0

\* C35: open never returns a handle bound to a worker whose thread has
\* already terminated: a registry hit hands out a worker that is running.
C35_NoDeadWorkerHandedOut ==
    [][\A c \in Callers :
          (pc[c] = "lookup" /\ pc'[c] = "ready") =>
             wpc'[shared'[c]] \notin {"died", "ended"}]_vars

\* C36: no put, get, delete, list, history, query or last-error native call
\* is made on a session before its open has succeeded or after its close()
\* has started: a worker inside such a call holds a resource handle >= 0 and
\* an isolate thread that has not been torn down, and no Shutdown has been
\* dispatched before it.
C36_OpsOnOpenSession ==
    \A w \in Workers :
        (wpc[w] = "op" \/ cur[w] # NoCmd) =>
           /\ whandle[w] >= 0
           /\ wthread[w] /\ isolate[w] = "live"
           /\ initMsg[w] \in {"Ok", "none"}
           /\ cur[w].kind \in CmdKinds

\* A worker is inside the native call of a command on its open session while
\* another worker has left its loop and is closing its own session.
C36_Witness ==
    \E w \in Workers : \E v \in Workers :
        /\ wpc[w] = "op" /\ cur[w].kind \in OpKinds /\ whandle[w] >= 0
        /\ wpc[v] \in {"close", "tear_down"}

\* C37: Shutdown is the last command a worker receives: at most one Shutdown
\* arrives on a worker's channel, nothing arrives behind it, and when the
\* worker has left its loop for close() the channel is empty, no command is
\* in a handler, every command that arrived before the Shutdown has been
\* dispatched in arrival order and no caller is still waiting for an answer
\* from that worker.
C37_ShutdownLast ==
    \A w \in Workers :
        /\ Count(ShutdownId, arrived[w]) <= 1
        /\ Count(ShutdownCmd, queue[w]) <= 1
        /\ \A i \in 1..Len(arrived[w]) :
              arrived[w][i] = ShutdownId => i = Len(arrived[w])
        /\ \A i \in 1..Len(queue[w]) :
              queue[w][i] = ShutdownCmd => i = Len(queue[w])
        /\ wpc[w] \in {"close", "tear_down", "ended"} =>
              /\ queue[w] = <<>> /\ cur[w] = NoCmd
              /\ arrived[w] \in {processed[w], Append(processed[w], ShutdownId)}
              /\ \A c \in Callers : ~(pc[c] = "wait_reply" /\ shared[c] = w)

\* A worker that dispatched a command of each of two callers has taken the
\* Shutdown of its last handle and is inside close().
C37_Witness ==
    \E w \in Workers :
        /\ wpc[w] = "close"
        /\ Len(processed[w]) >= 2
        /\ processed[w][1][1] # processed[w][2][1]
        /\ arrived[w] = Append(processed[w], ShutdownId)

C39_AbandonedReplyIgnored ==
    /\ [](\A w \in Workers :
             /\ Len(processed[w]) <= Len(arrived[w])
             /\ \A i \in 1..Len(processed[w]) : processed[w][i] = arrived[w][i]
             /\ wpc[w] # "died"
             /\ wpc[w] \in {"close", "tear_down", "ended"} =>
                   arrived[w] \in {processed[w], Append(processed[w], ShutdownId)})
    /\ [][\A w \in Workers :
             /\ (wpc[w] = "recv" /\ wpc'[w] # "recv" /\ Head(queue[w]).kind # "Shutdown") =>
                   /\ wpc'[w] = "op"
                   /\ cur'[w] = Head(queue[w])
             /\ (wpc[w] = "op" /\ wpc'[w] # "op"
                   /\ ~ReceiverAlive(cur[w].caller, cur[w])) =>
                   /\ wpc'[w] = "recv"
                   /\ replyChan' = replyChan
                   /\ queue'[w] = queue[w]
                   /\ processed'[w] = processed[w]
                   /\ whandle'[w] = whandle[w] /\ isolate'[w] = isolate[w]]_vars

\* A caller abandoned the reply of its only command before the worker
\* answered; the worker has dispatched that command, has come back to its
\* loop and is inside the next command, sent by the other caller.
C39_Witness ==
    \E w \in Workers : \E c \in Callers : \E d \in Callers \ {c} :
        /\ pc[c] = "ready" /\ nops[c] = 1 /\ lastReply[c] = NoReply /\ shared[c] = w
        /\ processed[w] = << <<c, 1>>, <<d, 1>> >>
        /\ wpc[w] = "op" /\ cur[w].caller = d
        /\ pc[d] = "wait_reply"

====
